---------------------------- MODULE Spec2Model ----------------------------
(***************************************************************************)
(* A model of sdprompt (rmrfslashbin/mkimg): the retry decorator, the two  *)
(* image-generation drivers (Stability: one synchronous POST; BFL: submit  *)
(* and poll), the parameter normalisation pipeline (analyze_prompt's       *)
(* dictionary clamp followed by the ImageParameters pydantic model), the   *)
(* metadata records written next to the images, and the filter of `list`.  *)
(*                                                                         *)
(* The specifications share the variables; each one drives one component   *)
(* and leaves the others at rest:                                          *)
(*   SpecRetry   utils/retry.py        with_retry                          *)
(*   SpecGen     image_generator.py / bfl_generator.py  generate_image     *)
(*   SpecParams  prompt_generator.py / image_generator.py  parameters      *)
(*   SpecMeta    metadata.py / main.py  save, load and verify in a folder  *)
(*   SpecLoad    metadata.py           load_metadata of one document       *)
(*   SpecQuery   main.py               list with a filter expression       *)
(*                                                                         *)
(* Floats are modelled exactly as integers: delays in hundredths of a      *)
(* second (1.0 is 100), cfg_scale in tenths (7.0 is 70).                   *)
(***************************************************************************)
EXTENDS Integers, Sequences, FiniteSets, TLC

VARIABLES
    \* ---- with_retry(retries, delay, backoff)(func) ----
    retries,         \* decorator argument
    delay,           \* decorator argument (initial delay)
    backoff,         \* decorator argument
    rPc,             \* "call" | "sleep" | "returned" | "raised"
    attempt,         \* the for-loop variable
    current_delay,   \* local current_delay
    last_exception,  \* local last_exception (NoExc is None)
    outcomes,        \* what each call of func did, in order
    sleeps,          \* the durations passed to asyncio.sleep, in order
    warnings,        \* the logging.warning calls, in order
    rRaised,         \* the exception that left the wrapper (NoExc: none)
    \* ---- generate_image on one provider ----
    provider,        \* "stability" | "bfl"
    model,           \* self.model, the model the generator was constructed with
    promptLen,       \* len(prompt)
    negLen,          \* len(negative_prompt), 0 for "" / None
    turbo,           \* parameters.model is one of the two turbo models
    gPc,             \* "start" | "sleep" | "poll" | "download" | "write" | "done"
    gTrace,          \* the I/O events of the call, in order
    pollLog,         \* the status of every answered poll, in order
    file,            \* the output path: "absent" | "partial" | "complete"
    gResult,         \* how the call ended
    request,         \* the body of the submission request (NoRequest: none made)
    gWarned,         \* the turbo warning was logged
    \* ---- parameter pipeline ----
    path,            \* "direct": ImageParameters(**kw); "pipeline": analyze_prompt first
    pPc,             \* "raw" | "analyzed" | "constructed"
    raw,             \* the parameters as given (by the completion model or the caller)
    cur,             \* the parameter dictionary handed to ImageParameters
    obj,             \* the outcome of ImageParameters(**cur)
    logged,          \* the adjustment notes that reached logging.warning
    \* ---- the output directory: images and their metadata records ----
    images,          \* image path -> the file there (NoFile: none)
    records,         \* stem -> the YAML file <stem>.yaml (NoFile: none)
    changed,         \* the images with one byte changed since they were saved
    checked,         \* the last verify_image(image, load_metadata(record))
    \* ---- load_metadata on one metadata file ----
    document,        \* the YAML document in the file, entry by entry
    loaded,          \* the outcome of load_metadata
    \* ---- the `verify` command on one metadata file ----
    vLayout,         \* "saved": written by save_metadata; "image_info": as verify reads it
    vDoc,            \* the YAML document of <stem>.yaml, entry by entry
    vImages,         \* suffix -> the image file <stem>.<suffix> (NoImage: none)
    vMaxAge,         \* the option --max-age
    vChanged,        \* the image content was changed after the record was written
    vPc,             \* "start" | "done"
    vOut,            \* how the command ended
    \* ---- the `verify-all` command on one directory ----
    vaFiles,         \* the metadata files of the directory, each with its image
    vaJobs,          \* the option --jobs
    vaPc,            \* "start" | "done"
    vaResults,       \* the (file, success, error) results collected
    vaReport,        \* the summary line printed
    vaExit,          \* the exception that ended the command ("none": none)
    \* ---- list --filter ----
    filter,          \* the filter expression
    yaml_files,      \* the *.yaml files of the directory: (name, what yaml.safe_load gives)
    sort,            \* the option --sort: "none" | "date" | "size" | "model"
    reverse,         \* the option --reverse
    listed,          \* the rows of the table printed, by file name, in order
    qPc,             \* "start" | "done"
    filtered,        \* the file names the filter kept, in order
    qWarnings,       \* the "Filter error" warnings printed
    qResult,         \* "none" | "table" (printed) | "error" (ClickException)
    \* ---- the loop of the `generate` command ----
    count,           \* the option --count
    dry_run,         \* the option --dry-run
    validParameters, \* ImageParameters(**parameters) accepts the analysed parameters
    output_dir,      \* stem -> the image and the record of that name in the directory
    image_number,    \* i + 1 of the loop (0: not in the loop yet)
    runPc,           \* "start" | "request" | "save" | "done" | "aborted"
    runTrace         \* the requests, writes and failures of the run, in order

retryVars == <<retries, delay, backoff, rPc, attempt, current_delay,
               last_exception, outcomes, sleeps, warnings, rRaised>>
genVars == <<provider, model, promptLen, negLen, turbo, gPc, gTrace, pollLog, file,
             gResult, request, gWarned>>
paramVars == <<path, pPc, raw, cur, obj, logged>>
metaVars == <<images, records, changed, checked>>
loadVars == <<document, loaded>>
queryVars == <<filter, yaml_files, sort, reverse, qPc, filtered, listed, qWarnings, qResult>>
verifyVars == <<vLayout, vDoc, vImages, vMaxAge, vChanged, vPc, vOut>>
verifyAllVars == <<vaFiles, vaJobs, vaPc, vaResults, vaReport, vaExit>>
runVars == <<count, dry_run, validParameters, output_dir, image_number, runPc, runTrace>>
cmdVars == <<verifyVars, verifyAllVars, runVars>>
storeVars == <<metaVars, loadVars, queryVars, cmdVars>>
vars == <<retryVars, genVars, paramVars, storeVars>>

(***************************************************************************)
(* Bounds of the model.                                                    *)
(***************************************************************************)
MaxRetries == 3
MaxPolls == 3

(***************************************************************************)
(* with_retry: utils/retry.py                                              *)
(***************************************************************************)
DefaultRetries == 3
\* Delays are in hundredths of a second: 0.25 s and the default 1.0 s.
DelaySet == {25, 100}
BackoffSet == {1, 2, 3}

NoExc == [id |-> 0, kind |-> "none"]
\* The exception object raised by the k-th call of func.
ExcOf(k, kind) == [id |-> k, kind |-> kind]
\* raise last_exception or Exception("All retry attempts failed")
AllFailed == [id |-> 0, kind |-> "Exception: All retry attempts failed"]
RaiseLast(e) == IF e = NoExc THEN AllFailed ELSE e

\* except exceptions as e: only the decorator's exception classes match.
ExcKinds == {"retryable", "other"}
RetryableAny(kind) == TRUE
Retryable(kind) == kind = "retryable"

\* f"{current_delay:.1f}": the delay printed with one decimal, which rounds to
\* the nearest tenth and a tie to the even tenth (0.25 prints as 0.2, 0.75 as
\* 0.8). The result is the number of tenths printed.
Fmt1(cd) ==
    LET q == cd \div 10
        r == cd % 10
    IN IF r < 5 THEN q
       ELSE IF r > 5 THEN q + 1
       ELSE IF q % 2 = 0 THEN q ELSE q + 1

\* current_delay *= backoff
NextDelayFixed(cd, b) == cd
NextDelay(cd, b) == cd * b

\* if attempt == retries: break
IsLastAttemptOffByOne(a, n) == a + 1 = n
IsLastAttempt(a, n) == a = n

\* for attempt in range(retries + 1): the loop goes on while attempt <= retries
InRange(a, n) == a < n + 1

RetryInitAt(n, d, b) ==
    /\ retries = n
    /\ delay = d
    /\ backoff = b
    /\ rPc = IF InRange(0, n) THEN "call" ELSE "raised"
    /\ attempt = 0
    /\ current_delay = d
    /\ last_exception = NoExc
    /\ outcomes = <<>>
    /\ sleeps = <<>>
    /\ warnings = <<>>
    /\ rRaised = IF InRange(0, n) THEN NoExc ELSE AllFailed

RetryInit == \E n \in 0..MaxRetries, d \in DelaySet, b \in BackoffSet : RetryInitAt(n, d, b)
RetryIdle == RetryInitAt(0, 100, 1)

\* return await func(*args, **kwargs)
CallReturns ==
    /\ rPc = "call"
    /\ outcomes' = Append(outcomes, "ok")
    /\ rPc' = "returned"
    /\ UNCHANGED <<retries, delay, backoff, attempt, current_delay,
                   last_exception, sleeps, warnings, rRaised>>
    /\ UNCHANGED <<genVars, paramVars, storeVars>>

\* func raises: an exception no except clause matches leaves the wrapper at
\* once; a matching one runs the except block, up to the break or the sleep.
CallRaises ==
    /\ rPc = "call"
    /\ \E kind \in ExcKinds :
         /\ outcomes' = Append(outcomes, kind)
         /\ IF ~Retryable(kind)
              THEN /\ rPc' = "raised"
                   /\ rRaised' = ExcOf(Len(outcomes) + 1, kind)
                   /\ UNCHANGED <<last_exception, warnings>>
            ELSE IF IsLastAttempt(attempt, retries)
              THEN /\ last_exception' = ExcOf(Len(outcomes) + 1, kind)
                   /\ rPc' = "raised"
                   /\ rRaised' = RaiseLast(last_exception')
                   /\ UNCHANGED <<warnings>>
            ELSE /\ last_exception' = ExcOf(Len(outcomes) + 1, kind)
                 /\ rPc' = "sleep"
                 /\ warnings' = Append(warnings,
                       [attempt |-> attempt + 1, of |-> retries,
                        wait |-> Fmt1(current_delay)])
                 /\ UNCHANGED <<rRaised>>
    /\ UNCHANGED <<retries, delay, backoff, attempt, current_delay, sleeps>>
    /\ UNCHANGED <<genVars, paramVars, storeVars>>

\* await asyncio.sleep(current_delay); current_delay *= backoff; next iteration
SleepDone ==
    /\ rPc = "sleep"
    /\ sleeps' = Append(sleeps, current_delay)
    /\ current_delay' = NextDelay(current_delay, backoff)
    /\ attempt' = attempt + 1
    /\ IF InRange(attempt + 1, retries)
         THEN rPc' = "call" /\ UNCHANGED rRaised
         ELSE rPc' = "raised" /\ rRaised' = RaiseLast(last_exception)
    /\ UNCHANGED <<retries, delay, backoff, last_exception, outcomes, warnings>>
    /\ UNCHANGED <<genVars, paramVars, storeVars>>


(***************************************************************************)
(* generate_image: image_generator.py (Stability), bfl_generator.py (BFL)  *)
(***************************************************************************)
PromptCap == 10000
PollIntervalMs == 500

Providers == {"stability", "bfl"}
\* config.py: the model ids _normalize_model_id accepts (StabilityModel /
\* BFLModel); the default of each provider and a turbo model are enough here.
StabilityModels == {"sd3.5-large", "sd3.5-large-turbo", "sd3-large-turbo"}
BFLModels == {"flux-pro-1.1"}
ModelsOf(pr) == IF pr = "stability" THEN StabilityModels ELSE BFLModels
\* [StabilityModel.SD3_LARGE_TURBO, StabilityModel.SD35_LARGE_TURBO]
TurboModels == {"sd3-large-turbo", "sd3.5-large-turbo"}
PromptLens == {5, PromptCap, PromptCap + 1}
NegLens == {0, 5, PromptCap + 1}

\* What an awaited HTTP call can do: answer with a status, or raise.
Transports == {"ok", "network", "timeout", "cancelled"}
\* Bodies of a non-200 Stability answer.
ErrorBodies == {"json_message", "json_no_message", "not_json"}
\* Statuses of a BFL result; only Ready and Failed are named by the code.
NonTerminal == {"Pending", "Unknown"}
Statuses == {"Ready", "Failed"} \cup NonTerminal
\* result_data.get('error', 'Unknown error')
ErrorDetails == {"NSFW", "absent"}
ErrorText(detail) == IF detail = "absent" THEN "Unknown error" ELSE detail

\* An I/O event of the call: what was awaited or done, a sleep's duration,
\* and what the environment answered.
Ev(e, ms, out) == [e |-> e, ms |-> ms, out |-> out]
NoRequest == [sent |-> FALSE, promptLen |-> 0, negative |-> FALSE]
NoResult == [kind |-> "none", type |-> "", msg |-> <<>>]
Success == [kind |-> "success", type |-> "", msg |-> <<>>]
Error(type, msg) == [kind |-> "error", type |-> type, msg |-> msg]
\* asyncio.CancelledError is a BaseException: no `except Exception` catches it.
Cancelled == [kind |-> "cancelled", type |-> "CancelledError", msg |-> <<>>]

\* except Exception as e: raise RuntimeError(f"Failed to generate image: {str(e)}")
Wrap(msg) == Error("RuntimeError", <<"Failed to generate image: ">> \o msg)

\* len(prompt) > 10000 / negative_prompt and len(negative_prompt) > 10000
PromptTooLong(n) == n > PromptCap
NegativeTooLong(n) == n > 0 /\ n > PromptCap

\* result_data["status"] == "Ready" / == "Failed"
IsReady(status) == status = "Ready"
IsFailedNever(status) == FALSE
IsFailedUnlessPending(status) == status \notin {"Ready", "Pending"}
IsFailed(status) == status = "Failed"

Count(seq, e) == Cardinality({i \in 1..Len(seq) : seq[i].e = e})

GenInitAt(pr, md, pl, nl, tb) ==
    /\ provider = pr
    /\ model = md
    /\ promptLen = pl
    /\ negLen = nl
    /\ turbo = tb
    /\ gPc = "start"
    /\ gTrace = <<>>
    /\ pollLog = <<>>
    /\ file = "absent"
    /\ gResult = NoResult
    /\ request = NoRequest
    /\ gWarned = FALSE

GenInit ==
    \E pr \in Providers, pl \in PromptLens, nl \in NegLens, tb \in BOOLEAN :
        \E md \in ModelsOf(pr) :
            /\ (pr = "bfl" => ~tb)      \* BFLParameters.model is never a Stability turbo model
            /\ GenInitAt(pr, md, pl, nl, tb)
GenIdle == GenInitAt("stability", "sd3.5-large", 5, 0, FALSE)

Finish(result) == gPc' = "done" /\ gResult' = result

\* ImageGenerator.generate_image up to the answer of its one POST.
StabilitySubmit ==
    /\ provider = "stability"
    /\ gPc = "start"
    /\ IF PromptTooLong(promptLen)
         THEN /\ Finish(Error("ValueError", <<"Prompt must be 10000 characters or less">>))
              /\ UNCHANGED <<gTrace, request, gWarned>>
       ELSE IF NegativeTooLong(negLen)
         THEN /\ Finish(Error("ValueError", <<"Negative prompt must be 10000 characters or less">>))
              /\ UNCHANGED <<gTrace, request, gWarned>>
       ELSE
         /\ gWarned' = (negLen > 0 /\ turbo)
         /\ request' = [sent |-> TRUE, promptLen |-> promptLen,
                        negative |-> (negLen > 0 /\ ~turbo)]
         /\ \E out \in (Transports \ {"ok"}) \cup {"200"} \cup ErrorBodies :
              /\ gTrace' = Append(gTrace, Ev("post", 0, out))
              /\ CASE out = "cancelled" -> Finish(Cancelled)
                   \* except httpx.TimeoutException: reads e.request.timeout, an attribute
                   \* httpx.Request does not have; the AttributeError leaves the handler.
                   [] out = "timeout" ->
                        Finish(Error("AttributeError",
                                     <<"'Request' object has no attribute 'timeout'">>))
                   \* except httpx.HTTPError: a transport error carries no response
                   [] out = "network" ->
                        Finish(Error("RuntimeError", <<"HTTP error: ", "network">>))
                   [] out = "200" -> gPc' = "write" /\ UNCHANGED gResult
                   \* response.status_code != 200, by what the body holds
                   [] out = "json_message" ->
                        Finish(Wrap(<<"API Error: ", "message">>))
                   [] out = "json_no_message" ->
                        Finish(Wrap(<<"API Error: ", "status_code">>))
                   [] out = "not_json" ->
                        Finish(Wrap(<<"API Error: ", "status_code", " - ", "text">>))
    /\ UNCHANGED <<provider, model, promptLen, negLen, turbo, pollLog, file>>
    /\ UNCHANGED <<retryVars, paramVars, storeVars>>

\* Answers of the BFL submission endpoint.
SubmitStatuses == {"200", "402", "429", "500"}

\* if response.status_code == 402: raise RuntimeError("Insufficient BFL credits")
\* elif response.status_code == 429: raise RuntimeError("Too many active BFL tasks")
\* response.raise_for_status()
SubmitReasonMerged(status) == <<"Too many active BFL tasks">>
SubmitReason(status) ==
    IF status = "402" THEN <<"Insufficient BFL credits">>
    ELSE IF status = "429" THEN <<"Too many active BFL tasks">>
    ELSE <<"HTTPStatusError">>

\* BFLGenerator.generate_image up to the job id.
BflSubmit ==
    /\ provider = "bfl"
    /\ gPc = "start"
    /\ request' = [sent |-> TRUE, promptLen |-> promptLen, negative |-> FALSE]
    /\ \E out \in (Transports \ {"ok"}) \cup SubmitStatuses :
         /\ gTrace' = Append(gTrace, Ev("post", 0, out))
         /\ CASE out = "cancelled" -> Finish(Cancelled)
              [] out \in {"network", "timeout"} -> Finish(Wrap(<<out>>))
              [] out \in {"402", "429", "500"} -> Finish(Wrap(SubmitReason(out)))
              [] out = "200" -> gPc' = "sleep" /\ UNCHANGED gResult
    /\ UNCHANGED <<provider, model, promptLen, negLen, turbo, pollLog, file, gWarned>>
    /\ UNCHANGED <<retryVars, paramVars, storeVars>>

\* await asyncio.sleep(0.5)
BflSleep ==
    /\ provider = "bfl"
    /\ gPc = "sleep"
    /\ gTrace' = Append(gTrace, Ev("sleep", PollIntervalMs, "ok"))
    /\ gPc' = "poll"
    /\ UNCHANGED <<provider, model, promptLen, negLen, turbo, pollLog, file, gResult,
                   request, gWarned>>
    /\ UNCHANGED <<retryVars, paramVars, storeVars>>

\* One GET /get_result and the branch on its status.
BflPoll ==
    /\ provider = "bfl"
    /\ gPc = "poll"
    /\ \/ \E out \in {"network", "timeout", "HTTPStatusError"} :
            /\ gTrace' = Append(gTrace, Ev("get", 0, out))
            /\ Finish(Wrap(<<out>>))
            /\ UNCHANGED pollLog
       \/ \E st \in Statuses, detail \in ErrorDetails, sample \in BOOLEAN :
            /\ (st \in NonTerminal => Len(pollLog) + 1 < MaxPolls)
            /\ (st # "Failed" => detail = "absent")
            /\ (st # "Ready" => sample)
            /\ gTrace' = Append(gTrace, Ev("get", 0, "ok"))
            /\ pollLog' = Append(pollLog, [status |-> st, error |-> detail, sample |-> sample])
            /\ IF IsReady(st)
                 THEN IF sample
                        THEN gPc' = "download" /\ UNCHANGED gResult
                        ELSE Finish(Wrap(<<"KeyError">>))   \* result_data["result"]["sample"]
               ELSE IF IsFailed(st)
                 THEN Finish(Wrap(<<"BFL generation failed: ", ErrorText(detail)>>))
               ELSE gPc' = "sleep" /\ UNCHANGED gResult
    /\ UNCHANGED <<provider, model, promptLen, negLen, turbo, file, request, gWarned>>
    /\ UNCHANGED <<retryVars, paramVars, storeVars>>

\* img_response = await dl_client.get(image_url); img_response.raise_for_status()
BflDownload ==
    /\ provider = "bfl"
    /\ gPc = "download"
    /\ \E out \in {"ok", "network", "timeout", "HTTPStatusError"} :
         /\ gTrace' = Append(gTrace, Ev("download", 0, out))
         /\ IF out = "ok" THEN gPc' = "write" /\ UNCHANGED gResult
                          ELSE Finish(Wrap(<<out>>))
    /\ UNCHANGED <<provider, model, promptLen, negLen, turbo, pollLog, file, request, gWarned>>
    /\ UNCHANGED <<retryVars, paramVars, storeVars>>

\* The task is cancelled while it awaits the sleep, the poll or the download.
BflCancel ==
    /\ provider = "bfl"
    /\ gPc \in {"sleep", "poll", "download"}
    /\ gTrace' = Append(gTrace, Ev("cancel", 0, "cancelled"))
    /\ Finish(Cancelled)
    /\ UNCHANGED <<provider, model, promptLen, negLen, turbo, pollLog, file,
                   request, gWarned>>
    /\ UNCHANGED <<retryVars, paramVars, storeVars>>

\* What is at the output path after open(output_path, "wb") and a write that
\* raises (disk full, I/O error): the code has no temporary file and no unlink.
AfterFailedWrite == "partial"

\* output_path.parent.mkdir(...); with open(output_path, "wb") as f: f.write(...)
\* and the return of the result dictionary.
WriteFile ==
    /\ gPc = "write"
    /\ \E out \in {"ok", "mkdir", "open", "write"} :
         /\ gTrace' = Append(gTrace, Ev("write", 0, out))
         /\ CASE out = "ok" -> file' = "complete" /\ Finish(Success)
              [] out \in {"mkdir", "open"} -> UNCHANGED file /\ Finish(Wrap(<<"OSError">>))
              [] out = "write" -> file' = AfterFailedWrite /\ Finish(Wrap(<<"OSError">>))
    /\ UNCHANGED <<provider, model, promptLen, negLen, turbo, pollLog, request, gWarned>>
    /\ UNCHANGED <<retryVars, paramVars, storeVars>>

(***************************************************************************)
(* Parameters: PromptGenerator.analyze_prompt (the dictionary clamp) and   *)
(* the pydantic model ImageParameters (field constraints, then the         *)
(* mode='after' validator validate_and_clamp, on a frozen model).          *)
(* Widths, heights and steps are JSON integers; cfg_scale is in tenths.    *)
(***************************************************************************)
MinDim == 512
MaxDim == 1024
MinSteps == 10
MaxSteps == 50
MinCfg == 10
MaxCfg == 100
MinPixels == 262144
MaxPixels == 1048576
DefaultDim == 1024
DefaultSteps == 30
DefaultCfg == 70

Fields == {"width", "height", "steps", "cfg_scale"}
DimSet == {256, 512, 543, 544, 576, 1000, 1024, 4096}
StepsSet == {5, 10, 30, 50, 200}
CfgSet == {5, 10, 70, 100, 250, 300}

Defaults == [width |-> DefaultDim, height |-> DefaultDim,
             steps |-> DefaultSteps, cfg_scale |-> DefaultCfg]

\* A parameter dictionary: the keys it has and their values (a key it does
\* not have shows the field's default, which the model then takes).
Dict(has, w, h, s, c) ==
    [has |-> has, v |-> [width |-> w, height |-> h, steps |-> s, cfg_scale |-> c]]

\* min(max(x, lo), hi)
Max2(a, b) == IF a > b THEN a ELSE b
Min2(a, b) == IF a < b THEN a ELSE b
Clamp(x, lo, hi) == Min2(Max2(x, lo), hi)
\* A rounding that always goes up to the next multiple: ((v + 64) // 64) * 64
RoundUpPast64(v) == ((v + 64) \div 64) * 64
\* ((v + 32) // 64) * 64
RoundTo64(v) == ((v + 32) \div 64) * 64

\* prompt_generator.py: the clamp of result["generation"]["parameters"];
\* nothing is logged.
analyze_prompt(d) ==
    LET clampDim(f) == IF f \in d.has THEN RoundTo64(Clamp(d.v[f], MinDim, MaxDim))
                                      ELSE d.v[f]
    IN [d EXCEPT !.v = [width |-> clampDim("width"),
                        height |-> clampDim("height"),
                        steps |-> IF "steps" \in d.has
                                    THEN Clamp(d.v.steps, MinSteps, MaxSteps)
                                    ELSE d.v.steps,
                        cfg_scale |-> IF "cfg_scale" \in d.has
                                        THEN Clamp(d.v.cfg_scale, MinCfg, MaxCfg)
                                        ELSE d.v.cfg_scale]]

\* Field(..., ge=, le=) of the four numeric fields
FieldConstraintsOk(v) ==
    /\ v.width >= MinDim /\ v.width <= MaxDim
    /\ v.height >= MinDim /\ v.height <= MaxDim
    /\ v.steps >= MinSteps /\ v.steps <= MaxSteps
    /\ v.cfg_scale >= MinCfg /\ v.cfg_scale <= MaxCfg

\* class Config: frozen = True
NotFrozen == FALSE
Frozen == TRUE

Note(field, old, new) == [field |-> field, old |-> old, new |-> new, named |-> TRUE]
\* "dimensions adjusted to meet minimum/maximum pixel requirement": no values
PixelNote == [field |-> "dimensions", old |-> 0, new |-> 0, named |-> FALSE]

\* The validator's state: self's fields, the local adjustments list, and
\* whether an assignment has raised.
Enter(v) == [width |-> v.width, height |-> v.height, steps |-> v.steps,
             cfg_scale |-> v.cfg_scale, adj |-> <<>>, raised |-> FALSE]

\* self.<f> = x: BaseModel.__setattr__ raises on a frozen model
SetAttr(st, f, x) ==
    IF st.raised THEN st
    ELSE IF Frozen THEN [st EXCEPT !.raised = TRUE]
    ELSE [st EXCEPT ![f] = x]
\* adjustments.append(note)
AddNote(st, note) == IF st.raised THEN st ELSE [st EXCEPT !.adj = Append(@, note)]

\* if self.<f> < lo: append, assign lo; elif self.<f> > hi: append, assign hi
ClampField(st, f, lo, hi) ==
    IF st.raised THEN st
    ELSE IF st[f] < lo THEN SetAttr(AddNote(st, Note(f, st[f], lo)), f, lo)
    ELSE IF st[f] > hi THEN SetAttr(AddNote(st, Note(f, st[f], hi)), f, hi)
    ELSE st

\* if self.<f> % 64 != 0: assign the rounded value, then append
RoundField(st, f) ==
    IF st.raised THEN st
    ELSE IF st[f] % 64 # 0
           THEN LET new == SetAttr(st, f, RoundTo64(st[f]))
                IN AddNote(new, Note(f, st[f], RoundTo64(st[f])))
    ELSE st

\* total_pixels = self.width * self.height and the square fallback
CheckPixels(st) ==
    IF st.raised THEN st
    ELSE IF st.width * st.height < MinPixels
           THEN SetAttr(SetAttr(AddNote(st, PixelNote), "height", MinDim), "width", MinDim)
    ELSE IF st.width * st.height > MaxPixels
           THEN SetAttr(SetAttr(AddNote(st, PixelNote), "height", MaxDim), "width", MaxDim)
    ELSE st

validate_and_clamp(v) ==
    CheckPixels(
      ClampField(
        ClampField(
          RoundField(
            RoundField(
              ClampField(
                ClampField(Enter(v), "width", MinDim, MaxDim),
                "height", MinDim, MaxDim),
              "width"),
            "height"),
          "cfg_scale", MinCfg, MaxCfg),
        "steps", MinSteps, MaxSteps))

NoValue == [width |-> 0, height |-> 0, steps |-> 0, cfg_scale |-> 0]
NoObject == [built |-> FALSE, raised |-> FALSE, error |-> "", v |-> NoValue, adj |-> <<>>]
\* pydantic's ValidationError is a ValueError
Raised(error) == [built |-> FALSE, raised |-> TRUE, error |-> error, v |-> NoValue, adj |-> <<>>]
Built(st) == [built |-> TRUE, raised |-> FALSE, error |-> "",
              v |-> [width |-> st.width, height |-> st.height, steps |-> st.steps,
                     cfg_scale |-> st.cfg_scale],
              adj |-> st.adj]

\* A constructor that validates nothing (what model_construct does).
ImageParametersUnvalidated(v) == Built(Enter(v))
\* ImageParameters(**kw): the field constraints, then the after-validator
ImageParameters(v) ==
    IF ~FieldConstraintsOk(v) THEN Raised("field_constraint")
    ELSE LET st == validate_and_clamp(v)
         IN IF st.raised THEN Raised("frozen_instance") ELSE Built(st)

ParamInitAt(pth, d) ==
    /\ path = pth
    /\ pPc = "raw"
    /\ raw = d
    /\ cur = d
    /\ obj = NoObject
    /\ logged = <<>>

ParamInit ==
    \E pth \in {"direct", "pipeline"}, has \in SUBSET Fields,
       w \in DimSet, h \in DimSet, s \in StepsSet, c \in CfgSet :
        /\ ("width" \notin has => w = Defaults.width)
        /\ ("height" \notin has => h = Defaults.height)
        /\ ("steps" \notin has => s = Defaults.steps)
        /\ ("cfg_scale" \notin has => c = Defaults.cfg_scale)
        /\ ParamInitAt(pth, Dict(has, w, h, s, c))
ParamIdle == ParamInitAt("direct", Dict({}, DefaultDim, DefaultDim, DefaultSteps, DefaultCfg))

\* analyze_prompt's parameter clamp (the pipeline of `generate`)
AnalyzePrompt ==
    /\ path = "pipeline"
    /\ pPc = "raw"
    /\ cur' = analyze_prompt(raw)
    /\ pPc' = "analyzed"
    /\ UNCHANGED <<path, raw, obj, logged>>
    /\ UNCHANGED <<retryVars, genVars, storeVars>>

\* ImageParameters(**parameters), with the validator's one logging.warning
Construct ==
    /\ \/ path = "direct" /\ pPc = "raw"
       \/ path = "pipeline" /\ pPc = "analyzed"
    /\ obj' = ImageParameters(cur.v)
    /\ logged' = IF obj'.built /\ obj'.adj # <<>> THEN Append(logged, obj'.adj) ELSE logged
    /\ pPc' = "constructed"
    /\ UNCHANGED <<path, raw, cur>>
    /\ UNCHANGED <<retryVars, genVars, storeVars>>


(***************************************************************************)
(* Metadata: metadata.py (MetadataHandler, ImageMetadata), utils/hash.py   *)
(* and the iteration of `generate` (main.py) that writes an image and then *)
(* its record. A file is the sequence of its bytes; a YAML document is the *)
(* sequence of its top-level entries.                                      *)
(***************************************************************************)
ReadSize == 4096

Bytes == {0, 1}
\* The image files generate_image writes: one of one byte, one of two.
Contents == {<<0>>, <<0, 1>>}
\* main.py: f"image_{image_number}.{format}" in the output directory
Stems == {"image_001", "image_002"}
Formats == {"png", "jpeg"}
ImagePaths == [stem : Stems, suffix : Formats]

NoFile == [exists |-> FALSE, data |-> <<>>]
File(data) == [exists |-> TRUE, data |-> data]

\* hashlib.sha256: a digest is modelled as a number that codes every byte fed
\* so far, so that two different byte strings never have the same digest.
Sha256Init == 0
RECURSIVE Update(_, _)
Update(h, block) ==
    IF block = <<>> THEN h
    ELSE Update(h * (Cardinality(Bytes) + 1) + Head(block) + 1, Tail(block))
\* hashlib.sha256(image_data)
sha256(data) == Update(Sha256Init, data)

\* for byte_block in iter(lambda: f.read(4096), b""): sha256_hash.update(byte_block)
RECURSIVE ReadBlocks(_, _)
ReadBlocks(h, rest) ==
    IF rest = <<>> THEN h
    ELSE LET n == Min2(ReadSize, Len(rest))
         IN ReadBlocks(Update(h, SubSeq(rest, 1, n)), SubSeq(rest, n + 1, Len(rest)))
StaleHash(content) == Sha256Init
compute_file_hash(content) == ReadBlocks(Sha256Init, content)

\* class ImageMetadata(BaseModel): the seven fields, none with a default
RequiredFields == {"timestamp", "original_prompt", "generated_prompt", "model_info",
                   "image_parameters", "image_verification", "status"}
FieldType == [timestamp |-> "datetime", original_prompt |-> "str",
              generated_prompt |-> "str", model_info |-> "dict",
              image_parameters |-> "dict", image_verification |-> "dict",
              status |-> "dict"]

\* A YAML value with the Python type it loads as, and a top-level entry.
Value(type, v) == [type |-> type, v |-> v]
Entry(key, value) == [key |-> key, value |-> value]

\* save_metadata: the dictionary it builds, in the order of its keys
\* (yaml.safe_dump(..., sort_keys=False) keeps that order). The size and the
\* checksum are read from the image file.
metadata(image_path, content) ==
    << Entry("timestamp", Value("datetime", "now")),
       Entry("original_prompt", Value("str", "original_prompt")),
       Entry("generated_prompt", Value("str", "prompt")),
       Entry("image_parameters", Value("dict", [format |-> image_path.suffix])),
       Entry("image_verification",
             Value("dict", [size_bytes |-> Len(content),
                            checksum_sha256 |-> compute_file_hash(content)])),
       Entry("model_info", Value("dict", [platform |-> "Stability AI"])),
       Entry("status", Value("dict", [success |-> TRUE])) >>

\* yaml.safe_load: the mapping of the document; of two entries with one key
\* the later one stays.
Keys(doc) == {doc[i].key : i \in 1..Len(doc)}
LastOf(doc, k) ==
    CHOOSE i \in 1..Len(doc) :
        doc[i].key = k /\ \A j \in (i + 1)..Len(doc) : doc[j].key # k
safe_load(doc) == [k \in Keys(doc) |-> doc[LastOf(doc, k)].value]

\* pydantic validates the type of every declared field.
TypeOkAny(f, value) == TRUE
TypeOk(f, value) == value.type = FieldType[f]

NotLoaded == [state |-> "none", error |-> "", record |-> <<>>]
LoadRaised(error) == [state |-> "raised", error |-> error, record |-> <<>>]
Loaded(record) == [state |-> "loaded", error |-> "", record |-> record]

\* ImageMetadata(**data): a missing or ill-typed field is a ValidationError;
\* a key that is not a field is ignored (pydantic's default extra='ignore').
ImageMetadata(data) ==
    IF \E f \in RequiredFields : f \notin DOMAIN data
      THEN LoadRaised("ValidationError")
    ELSE IF \E f \in RequiredFields : ~TypeOk(f, data[f])
      THEN LoadRaised("ValidationError")
    ELSE Loaded([f \in RequiredFields |-> data[f]])

\* load_metadata(path)
load_metadata(doc) == ImageMetadata(safe_load(doc))

\* verify_image(image_path, metadata)
verify_image(content, md) ==
    sha256(content) = md.record["image_verification"].v.checksum_sha256

NoPath == [stem |-> "", suffix |-> ""]
NotChecked == [state |-> "none", image |-> NoPath, wasChanged |-> FALSE,
               format |-> "", ok |-> FALSE]

MetaInit ==
    /\ images = [p \in ImagePaths |-> NoFile]
    /\ records = [s \in Stems |-> NoFile]
    /\ changed = {}
    /\ checked = NotChecked
MetaIdle == MetaInit

\* One iteration of the loop of `generate` that succeeds: generate_image
\* writes the image at output_path, save_metadata writes the record at
\* image_path.with_suffix(".yaml").
GenerateAndSave ==
    /\ checked.state = "none"
    /\ \E p \in ImagePaths, content \in Contents :
         /\ images' = [images EXCEPT ![p] = File(content)]
         /\ records' = [records EXCEPT ![p.stem] = File(metadata(p, images'[p].data))]
         /\ changed' = changed \ {p}
    /\ UNCHANGED checked
    /\ UNCHANGED <<retryVars, genVars, paramVars, loadVars, queryVars, cmdVars>>

\* Somebody changes one byte of an image that is as it was saved.
ChangeByte ==
    /\ checked.state = "none"
    /\ \E p \in ImagePaths :
         /\ images[p].exists
         /\ p \notin changed
         /\ \E i \in 1..Len(images[p].data), b \in Bytes :
              /\ b # images[p].data[i]
              /\ images' = [images EXCEPT ![p].data[i] = b]
         /\ changed' = changed \cup {p}
    /\ UNCHANGED <<records, checked>>
    /\ UNCHANGED <<retryVars, genVars, paramVars, loadVars, queryVars, cmdVars>>

\* verify_image(image_path, load_metadata(image_path.with_suffix(".yaml")))
LoadAndVerify ==
    /\ checked.state = "none"
    /\ \E p \in ImagePaths :
         /\ images[p].exists
         /\ records[p.stem].exists
         /\ LET md == load_metadata(records[p.stem].data)
            IN checked' =
                 IF md.state = "loaded"
                   THEN [state |-> "verified", image |-> p,
                         wasChanged |-> p \in changed,
                         format |-> md.record["image_parameters"].v.format,
                         ok |-> verify_image(images[p].data, md)]
                   ELSE [state |-> "raised", image |-> p,
                         wasChanged |-> p \in changed, format |-> "", ok |-> FALSE]
    /\ UNCHANGED <<images, records, changed>>
    /\ UNCHANGED <<retryVars, genVars, paramVars, loadVars, queryVars, cmdVars>>

\* ---- load_metadata of a document that save_metadata did not write as is ----
\* The entries of a record without the keys in `missing`, with a YAML list as
\* the value of the keys in `bad`, and with one more key if `extra`.
Edited(doc, missing, bad, extra) ==
    LET kept == SelectSeq(doc, LAMBDA e : e.key \notin missing)
        retyped == [i \in 1..Len(kept) |->
                      IF kept[i].key \in bad
                        THEN Entry(kept[i].key, Value("list", <<>>))
                        ELSE kept[i]]
    IN IF extra THEN Append(retyped, Entry("schema_version", Value("int", 2)))
                ELSE retyped

LoadInitAt(doc) ==
    /\ document = doc
    /\ loaded = NotLoaded
LoadInit ==
    \E missing \in SUBSET RequiredFields, extra \in BOOLEAN :
        \E bad \in SUBSET (RequiredFields \ missing) :
            LoadInitAt(Edited(metadata([stem |-> "image_001", suffix |-> "png"], <<0, 1>>),
                              missing, bad, extra))
LoadIdle == LoadInitAt(<<>>)

\* MetadataHandler.load_metadata(path)
Load ==
    /\ loaded.state = "none"
    /\ loaded' = load_metadata(document)
    /\ UNCHANGED document
    /\ UNCHANGED <<retryVars, genVars, paramVars, metaVars, queryVars, cmdVars>>

(***************************************************************************)
(* Query: main.py, the filter of `list` (list, eval_filter, parse_size).   *)
(* Text is a sequence of one-character strings, so that the regular        *)
(* expressions, str(), float(), int() and lower() are computed and not     *)
(* assumed. A metadata value is a node: an integer, a text or a mapping.   *)
(***************************************************************************)
LowerCase == <<"a", "b", "c", "d", "e", "f", "g", "h", "i", "j", "k", "l", "m", "n", "o", "p", "q", "r", "s", "t", "u", "v", "w", "x", "y", "z">>
UpperCase == <<"A", "B", "C", "D", "E", "F", "G", "H", "I", "J", "K", "L", "M", "N", "O", "P", "Q", "R", "S", "T", "U", "V", "W", "X", "Y", "Z">>
DigitChars == <<"0", "1", "2", "3", "4", "5", "6", "7", "8", "9">>

IsIn(seq, c) == \E i \in 1..Len(seq) : seq[i] = c
Index(seq, c) == CHOOSE i \in 1..Len(seq) : seq[i] = c
IsDigit(c) == IsIn(DigitChars, c)
\* \w, \s and [><=!] of the regular expressions
IsWord(c) == IsIn(LowerCase, c) \/ IsIn(UpperCase, c) \/ IsDigit(c) \/ c = "_"
IsSpace(c) == c = " "
IsOpChar(c) == c \in {">", "<", "=", "!"}

\* str.lower()
lower(text) ==
    [i \in 1..Len(text) |->
        IF IsIn(UpperCase, text[i]) THEN LowerCase[Index(UpperCase, text[i])] ELSE text[i]]
\* str.strip(chars)
RECURSIVE strip(_, _)
strip(text, chars) ==
    IF text # <<>> /\ Head(text) \in chars THEN strip(Tail(text), chars)
    ELSE IF text # <<>> /\ text[Len(text)] \in chars
           THEN strip(SubSeq(text, 1, Len(text) - 1), chars)
    ELSE text
\* y in x, for two texts
IsSubstring(y, x) ==
    \E i \in 0..(Len(x) - Len(y)) : SubSeq(x, i + 1, i + Len(y)) = y

RECURSIVE Pow(_, _)
Pow(b, n) == IF n = 0 THEN 1 ELSE b * Pow(b, n - 1)

\* The number a run of decimal digits writes, and str(n) of an integer n >= 0.
RECURSIVE DigitsValue(_)
DigitsValue(ds) ==
    IF ds = <<>> THEN 0
    ELSE DigitsValue(SubSeq(ds, 1, Len(ds) - 1)) * 10 + (Index(DigitChars, ds[Len(ds)]) - 1)
RECURSIVE IntText(_)
IntText(n) ==
    IF n < 10 THEN <<DigitChars[n + 1]>>
    ELSE IntText(n \div 10) \o <<DigitChars[(n % 10) + 1]>>

\* int(text) and float(text) accept, of the texts of this model, the runs of
\* digits and the runs of digits with one point (no text here has a sign, an
\* exponent, an underscore or surrounding blanks). A float is num/den.
IsInt(text) == text # <<>> /\ \A i \in 1..Len(text) : IsDigit(text[i])
IsFloat(text) ==
    /\ \A i \in 1..Len(text) : IsDigit(text[i]) \/ text[i] = "."
    /\ \E i \in 1..Len(text) : IsDigit(text[i])
    /\ Cardinality({i \in 1..Len(text) : text[i] = "."}) <= 1
float(text) ==
    IF \E i \in 1..Len(text) : text[i] = "."
      THEN LET p == CHOOSE i \in 1..Len(text) : text[i] = "."
               frac == SubSeq(text, p + 1, Len(text))
           IN [num |-> DigitsValue(SubSeq(text, 1, p - 1) \o frac),
               den |-> Pow(10, Len(frac))]
      ELSE [num |-> DigitsValue(text), den |-> 1]

\* ---- a metadata file as yaml.safe_load returns it ----
Number(n) == [t |-> "int", n |-> n, s |-> <<>>, m |-> <<>>]
Text(s) == [t |-> "str", n |-> 0, s |-> s, m |-> <<>>]
Map(m) == [t |-> "map", n |-> 0, s |-> <<>>, m |-> m]
None == [t |-> "none", n |-> 0, s |-> <<>>, m |-> <<>>]
\* a YAML timestamp loads as a datetime (n: its time); a file safe_load fails on
DateTime(n) == [t |-> "datetime", n |-> n, s |-> <<>>, m |-> <<>>]
Unparsable == [t |-> "unparsable", n |-> 0, s |-> <<>>, m |-> <<>>]
\* str(data)
str(node) ==
    CASE node.t = "int" -> IntText(node.n)
      [] node.t = "str" -> node.s
      [] node.t = "none" -> <<"N", "o", "n", "e">>
      [] OTHER -> <<"{", "}">>
\* `not data`
Falsy(node) ==
    \/ node.t = "none"
    \/ node.t = "int" /\ node.n = 0
    \/ node.t = "str" /\ node.s = <<>>
    \/ node.t = "map" /\ DOMAIN node.m = {}
\* dict.get(key, default)
Get(node, key, default) == IF key \in DOMAIN node.m THEN node.m[key] ELSE default

KeyImageInfo == <<"i", "m", "a", "g", "e", "_", "i", "n", "f", "o">>
KeyFileSizeBytes == <<"f", "i", "l", "e", "_", "s", "i", "z", "e", "_", "b", "y", "t", "e", "s">>
KeyImageVerification == <<"i", "m", "a", "g", "e", "_", "v", "e", "r", "i", "f", "i", "c", "a", "t", "i", "o", "n">>
KeySizeBytes == <<"s", "i", "z", "e", "_", "b", "y", "t", "e", "s">>
KeyOriginalPrompt == <<"o", "r", "i", "g", "i", "n", "a", "l", "_", "p", "r", "o", "m", "p", "t">>
KeyDimensions == <<"d", "i", "m", "e", "n", "s", "i", "o", "n", "s">>
KeyWidth == <<"w", "i", "d", "t", "h">>
KeyHeight == <<"h", "e", "i", "g", "h", "t">>
FieldSize == <<"s", "i", "z", "e">>
FieldPrompt == <<"p", "r", "o", "m", "p", "t">>
Unknown == <<"U", "n", "k", "n", "o", "w", "n">>
Contains == <<"c", "o", "n", "t", "a", "i", "n", "s">>

\* ---- parse_size ----
\* multipliers: the unit's power of 1024
UnitPower == (<<"b">> :> 0) @@ (<<"k", "b">> :> 1) @@ (<<"m", "b">> :> 2)
               @@ (<<"g", "b">> :> 3) @@ (<<"t", "b">> :> 4)
Multiplier(unit) == Pow(1024, UnitPower[unit])
\* re.match(r'^([\d.]+)\s*([kmgt]?b)?$', size_str): the number is the longest
\* run of digits and points, blanks may follow, and the rest is a unit or
\* nothing. (No shorter number can match: what follows it must be a blank,
\* a unit letter or the end.)
NumberEnd(text) ==
    IF \E i \in 1..Len(text) : ~(IsDigit(text[i]) \/ text[i] = ".")
      THEN (CHOOSE i \in 1..Len(text) :
              /\ ~(IsDigit(text[i]) \/ text[i] = ".")
              /\ \A j \in 1..(i - 1) : IsDigit(text[j]) \/ text[j] = ".") - 1
      ELSE Len(text)
SizeValue(ok, n) == [ok |-> ok, n |-> n]
\* parse_size(size_str): the number of bytes, or ValueError (ok = FALSE)
parse_size(size_str) ==
    LET text == lower(strip(size_str, {" "}))
        e == NumberEnd(text)
        number == SubSeq(text, 1, e)
        rest == strip(SubSeq(text, e + 1, Len(text)), {" "})
        unit == IF rest = <<>> THEN <<"b">> ELSE rest
    IN IF e = 0 \/ (rest # <<>> /\ rest \notin DOMAIN UnitPower)
         \* no match: return int(size_str)
         THEN IF IsInt(text) THEN SizeValue(TRUE, DigitsValue(text))
                             ELSE SizeValue(FALSE, 0)
       \* int(float(number) * multipliers[unit])
       ELSE IF ~IsFloat(number) THEN SizeValue(FALSE, 0)
       ELSE SizeValue(TRUE, (float(number).num * Multiplier(unit)) \div float(number).den)

\* ---- eval_filter ----
OpGt == <<">">>
OpLt == <<"<">>
OpGe == <<">", "=">>
OpLe == <<"<", "=">>
OpEq == <<"=">>
OpNe == <<"!", "=">>
\* the keys of ops
ops == {OpGt, OpLt, OpGe, OpLe, OpEq, OpNe, Contains}

\* re.match(r'(\w+)(?:\.(\w+))?\s*([><=!]+|contains)\s*(.+)', expr): the ends
\* of the field, of the optional subfield, of the blanks, of the operator
\* and of the blanks after it, in every way the pattern can match.
FieldEnds(expr) == {i \in 1..Len(expr) : \A x \in 1..i : IsWord(expr[x])}
SubfieldEnds(expr, i) ==
    {i} \cup {j \in (i + 2)..Len(expr) :
                expr[i + 1] = "." /\ \A x \in (i + 2)..j : IsWord(expr[x])}
BlankEnds(expr, j) == {k \in j..Len(expr) : \A x \in (j + 1)..k : IsSpace(expr[x])}
OperatorEnds(expr, k) ==
    {m \in (k + 1)..Len(expr) : \A x \in (k + 1)..m : IsOpChar(expr[x])}
      \cup (IF k + Len(Contains) <= Len(expr)
               /\ SubSeq(expr, k + 1, k + Len(Contains)) = Contains
              THEN {k + Len(Contains)} ELSE {})
Matches(expr) ==
    UNION {UNION {UNION {UNION {
        {<<i, j, k, m, n>> : n \in {x \in BlankEnds(expr, m) : x < Len(expr)}}
          : m \in OperatorEnds(expr, k)}
          : k \in BlankEnds(expr, j)}
          : j \in SubfieldEnds(expr, i)}
          : i \in FieldEnds(expr)}
\* Every quantifier of the pattern is greedy, so the match found first is the
\* one with the longest field, then the longest subfield, and so on.
RECURSIVE Before(_, _, _)
Before(t, u, x) ==
    IF x > Len(t) THEN TRUE
    ELSE IF t[x] # u[x] THEN t[x] > u[x]
    ELSE Before(t, u, x + 1)
NoMatch == [matched |-> FALSE, field |-> <<>>, subfield |-> <<>>, op |-> <<>>, value |-> <<>>]
ReMatch(expr) ==
    IF Matches(expr) = {} THEN NoMatch
    ELSE LET t == CHOOSE t \in Matches(expr) : \A u \in Matches(expr) : Before(t, u, 1)
         IN [matched |-> TRUE,
             field |-> SubSeq(expr, 1, t[1]),
             subfield |-> SubSeq(expr, t[1] + 2, t[2]),
             op |-> SubSeq(expr, t[3] + 1, t[4]),
             value |-> SubSeq(expr, t[5] + 1, Len(expr))]

\* What a call returns or raises.
Ret(b) == [raised |-> FALSE, value |-> b, error |-> ""]
Raise(error) == [raised |-> TRUE, value |-> FALSE, error |-> error]

Less(a, b) == a.num * b.den < b.num * a.den
\* ops[op](str(data), str(value)) inside try ... except (ValueError, TypeError):
\* an operator that is not a key of ops is a KeyError, which is not caught;
\* a text float() rejects makes the result False.
Compare(op, x, y) ==
    IF op \notin ops THEN Raise("KeyError")
    ELSE IF op \in {OpGt, OpLt, OpGe, OpLe}
      THEN IF ~(IsFloat(x) /\ IsFloat(y)) THEN Ret(FALSE)
           ELSE CASE op = OpGt -> Ret(Less(float(y), float(x)))
                  [] op = OpLt -> Ret(Less(float(x), float(y)))
                  [] op = OpGe -> Ret(~Less(float(x), float(y)))
                  [] op = OpLe -> Ret(~Less(float(y), float(x)))
    ELSE IF op = OpEq THEN Ret(lower(x) = lower(y))
    ELSE IF op = OpNe THEN Ret(lower(x) # lower(y))
    ELSE Ret(IsSubstring(lower(y), lower(x)))

\* The value of a .get() on something that is not a mapping: AttributeError.
IsMap(node) == node.t = "map"

\* The branch of eval_filter for the field `size`: the size is read from
\* image_info.file_size_bytes (0 if absent), the value goes through parse_size.
SizeStoredInVerification(md) ==
    Get(Get(md, KeyImageVerification, Map(<<>>)), KeySizeBytes, Number(0))
SizeData(md) ==
    Get(Get(md, KeyImageInfo, Map(<<>>)), KeyFileSizeBytes, Number(0))

eval_filter(expr, md) ==
    LET match == ReMatch(expr)
        value == strip(match.value, {"\"", "'"})
    IN IF ~match.matched THEN Raise("ValueError")
       \* metadata is None, a list or a text: .get is an AttributeError,
       \* metadata[field] a TypeError, which is caught
       ELSE IF ~IsMap(md)
         THEN IF match.field \in {FieldSize, KeyDimensions, FieldPrompt}
                THEN Raise("AttributeError")
                ELSE Ret(FALSE)
       ELSE IF match.field = FieldSize
         THEN IF ~IsMap(Get(md, KeyImageInfo, Map(<<>>))) THEN Raise("AttributeError")
              ELSE IF ~parse_size(value).ok THEN Ret(FALSE)
              ELSE Compare(match.op, str(SizeData(md)), str(Number(parse_size(value).n)))
       ELSE IF match.field = KeyDimensions
         THEN LET info == Get(md, KeyImageInfo, Map(<<>>))
                  data == IF IsMap(info) THEN Get(info, KeyDimensions, Text(<<>>)) ELSE None
                  width == IF IsMap(info) THEN Get(info, KeyWidth, Number(0)) ELSE None
                  height == IF IsMap(info) THEN Get(info, KeyHeight, Number(0)) ELSE None
              IN IF ~IsMap(info) THEN Raise("AttributeError")
                 ELSE IF ~Falsy(data) /\ str(data) # Unknown
                   THEN Compare(match.op, str(data), value)
                 ELSE IF ~Falsy(width) /\ ~Falsy(height)
                   THEN Compare(match.op, str(width) \o <<"x">> \o str(height), value)
                 ELSE Ret(FALSE)
       ELSE IF match.field = FieldPrompt
         THEN LET data == Get(md, KeyOriginalPrompt, Text(<<>>))
              IN IF Falsy(data) THEN Ret(FALSE)
                 ELSE Compare(match.op, str(data), value)
       ELSE IF match.field \notin DOMAIN md.m THEN Ret(FALSE)     \* KeyError
       ELSE LET top == md.m[match.field]
            IN IF match.subfield = <<>>
                 THEN IF top.t = "none" THEN Ret(FALSE)
                      ELSE Compare(match.op, str(top), value)
               ELSE IF ~IsMap(top) THEN Raise("AttributeError")
               ELSE IF Get(top, match.subfield, None).t = "none" THEN Ret(FALSE)
               ELSE Compare(match.op, str(Get(top, match.subfield, None)), value)

\* ---- list ----
\* The filter expressions of the model.
FilterSizeOver5MB == <<"s", "i", "z", "e", ">", "5", "M", "B">>
FilterSizeAtLeast == <<"s", "i", "z", "e", " ", ">", "=", " ", "6", "0", "0", "0", "0", "0", "0">>
FilterSizeUnder == <<"s", "i", "z", "e", "<", "1", ".", "5", "m", "b">>
FilterSizeIs == <<"s", "i", "z", "e", "=", "6", "0", "0", "0", "0", "0", "0">>
FilterSizeBadUnit == <<"s", "i", "z", "e", ">", "5", "X", "B">>
FilterPrompt == <<"p", "r", "o", "m", "p", "t", " ", "c", "o", "n", "t", "a", "i", "n", "s", " ", "c", "a", "t">>
FilterDotted == <<"i", "m", "a", "g", "e", "_", "v", "e", "r", "i", "f", "i", "c", "a", "t", "i", "o", "n", ".", "s", "i", "z", "e", "_", "b", "y", "t", "e", "s", ">", "5", "0", "0", "0", "0", "0", "0">>
FilterDoubleEquals == <<"s", "i", "z", "e", "=", "=", "5", "M", "B">>
FilterArrow == <<"s", "i", "z", "e", "=", ">", "5", "M", "B">>
FilterUnknownDoubleEquals == <<"m", "o", "d", "e", "l", "=", "=", "s", "d", "3">>
FilterNoOperator == <<"s", "i", "z", "e">>
FilterNoField == <<">", "5", "M", "B">>
FilterNoValue == <<"s", "i", "z", "e", ">", "=">>
FilterSubfieldOfText == <<"o", "r", "i", "g", "i", "n", "a", "l", "_", "p", "r", "o", "m", "p", "t", ".", "w", "o", "r", "d", "s", "=", "c", "a", "t">>
FilterAbsentField == <<"s", "e", "e", "d", ">", "5">>
FilterTextAsNumber == <<"o", "r", "i", "g", "i", "n", "a", "l", "_", "p", "r", "o", "m", "p", "t", ">", "5">>
FilterModelTurbo == <<"m", "o", "d", "e", "l", " ", "c", "o", "n", "t", "a", "i", "n", "s", " ", "t", "u", "r", "b", "o">>
FilterModelIs == <<"m", "o", "d", "e", "l", "=", "S", "D", "3", ".", "5", "-", "L", "A", "R", "G", "E">>
FilterModelIsNot == <<"m", "o", "d", "e", "l", " ", "!", "=", " ", "F", "l", "u", "x", "-", "P", "r", "o", "-", "1", ".", "1">>
WellFormedFilters == {FilterSizeOver5MB, FilterSizeAtLeast, FilterSizeUnder, FilterSizeIs,
                      FilterSizeBadUnit, FilterPrompt, FilterDotted,
                      FilterSubfieldOfText, FilterAbsentField, FilterTextAsNumber,
                      FilterModelTurbo, FilterModelIs, FilterModelIsNot}
\* Not of the form field[.subfield] operator value with one of the seven
\* operators: an operator token that is none of them, or a part missing.
MalformedFilters == {FilterDoubleEquals, FilterArrow, FilterUnknownDoubleEquals,
                     FilterNoOperator, FilterNoField, FilterNoValue}
Filters == WellFormedFilters \cup MalformedFilters

\* The metadata files of the directory. "saved": the record save_metadata
\* writes, the model name normalised to lower case by the generator under
\* model_info.generator.model; "image_info": a record with the keys list and
\* verify read, the timestamp as text, and a top-level model key, which the
\* last branch of eval_filter resolves.
SizeSet == {1000000, 6000000, 10000000}
Shapes == {"saved", "image_info"}
Prompts == <<<<"A", " ", "C", "a", "t">>, <<"a", " ", "d", "o", "g">>, <<"c", "a", "t", "s">>>>
Names == <<"image_001", "image_002", "image_003">>
KeyModel == <<"m", "o", "d", "e", "l">>
KeyModelInfo == <<"m", "o", "d", "e", "l", "_", "i", "n", "f", "o">>
KeyGenerator == <<"g", "e", "n", "e", "r", "a", "t", "o", "r">>
ModelNames == <<<<"S", "D", "3", ".", "5", "-", "L", "a", "r", "g", "e", "-", "T", "u", "r", "b", "o">>, <<"s", "d", "3", ".", "5", "-", "l", "a", "r", "g", "e">>, <<"f", "l", "u", "x", "-", "p", "r", "o", "-", "1", ".", "1">>>>
KeyTimestamp == <<"t", "i", "m", "e", "s", "t", "a", "m", "p">>
KeyGenerationInfo == <<"g", "e", "n", "e", "r", "a", "t", "i", "o", "n", "_", "i", "n", "f", "o">>
\* The time of the datetime save_metadata stores, and a timestamp as text.
Times == <<30, 10, 20>>
Stamps == <<<<"2", "0", "2", "4", "-", "0", "3", "-", "0", "1">>, <<"2", "0", "2", "4", "-", "0", "1", "-", "0", "1">>, <<"2", "0", "2", "4", "-", "0", "2", "-", "0", "1">>>>
\* "bare": a record with none of the keys the sort reads.
Record(shape, i, size) ==
    IF shape = "saved"
      THEN Map((KeyOriginalPrompt :> Text(Prompts[i]))
                @@ (KeyTimestamp :> DateTime(Times[i]))
                @@ (KeyImageVerification :> Map(KeySizeBytes :> Number(size)))
                @@ (KeyModelInfo :> Map(KeyGenerator :>
                       Map(KeyModel :> Text(lower(ModelNames[i]))))))
    ELSE IF shape = "image_info"
      THEN Map((KeyOriginalPrompt :> Text(Prompts[i]))
                @@ (KeyTimestamp :> Text(Stamps[i]))
                @@ (KeyImageInfo :> Map(KeyFileSizeBytes :> Number(size)))
                @@ (KeyGenerationInfo :> Map(KeyModel :> Text(ModelNames[i])))
                @@ (KeyModel :> Text(ModelNames[i])))
    ELSE Map(KeyOriginalPrompt :> Text(Prompts[i]))
Corpus(shape, s1, s2, s3) ==
    << [name |-> Names[1], metadata |-> Record(shape, 1, s1)],
       [name |-> Names[2], metadata |-> Record(shape, 2, s2)],
       [name |-> Names[3], metadata |-> Record(shape, 3, s3)] >>

\* A directory whose files differ in kind: a record of one of the three
\* shapes, an empty file (safe_load gives None) or one safe_load fails on.
FileOfKind == {"saved", "image_info", "bare", "empty", "unparsable"}
SizeOf == <<6000000, 1000000, 6000000>>
YamlFile(kind, i) ==
    [name |-> Names[i],
     metadata |-> IF kind = "empty" THEN None
                  ELSE IF kind = "unparsable" THEN Unparsable
                  ELSE Record(kind, i, SizeOf[i])]
Mixed(k1, k2, k3) == <<YamlFile(k1, 1), YamlFile(k2, 2), YamlFile(k3, 3)>>
SortKeys == {"none", "date", "size", "model"}
NoFilter == <<>>

QueryInitAt(f, files, s, r) ==
    /\ filter = f
    /\ yaml_files = files
    /\ sort = s
    /\ reverse = r
    /\ qPc = "start"
    /\ filtered = <<>>
    /\ listed = <<>>
    /\ qWarnings = <<>>
    /\ qResult = "none"
\* Every filter over the uniform directories, unsorted; no filter or the
\* prompt filter over the mixed directories, with every sort.
QueryInit ==
    \/ \E f \in Filters :
        \/ QueryInitAt(f, <<>>, "none", FALSE)
        \/ \E shape \in Shapes, s1 \in SizeSet, s2 \in SizeSet, s3 \in SizeSet :
             QueryInitAt(f, Corpus(shape, s1, s2, s3), "none", FALSE)
    \/ \E f \in {NoFilter, FilterPrompt}, s \in SortKeys, r \in BOOLEAN,
          k1 \in FileOfKind, k2 \in FileOfKind, k3 \in FileOfKind :
             QueryInitAt(f, Mixed(k1, k2, k3), s, r)
QueryIdle == QueryInitAt(FilterSizeOver5MB, <<>>, "none", FALSE)

\* The entries eval_filter is true for, in order; an entry it raises for is
\* left out with a warning (try ... except Exception: console.print).
Kept(f, files) ==
    SelectSeq(files, LAMBDA entry :
        ~eval_filter(f, entry.metadata).raised /\ eval_filter(f, entry.metadata).value)
Warned(f, files) ==
    LET failed == SelectSeq(files, LAMBDA entry : eval_filter(f, entry.metadata).raised)
    IN [i \in 1..Len(failed) |->
          [name |-> failed[i].name, error |-> eval_filter(f, failed[i].metadata).error]]

\* get_sort_key(metadata, sort_field)
get_sort_key(md, sort_field) ==
    CASE sort_field = "date" -> Get(md, KeyTimestamp, Text(<<>>))
      [] sort_field = "size" -> Get(Get(md, KeyImageInfo, Map(<<>>)), KeyFileSizeBytes, Number(0))
      [] sort_field = "model" -> Get(Get(md, KeyGenerationInfo, Map(<<>>)), KeyModel, Text(<<>>))
      [] OTHER -> Text(<<>>)

\* The order of characters (their code points) and of texts.
CodeOrder == <<" ", "-", ".">> \o DigitChars \o <<":">> \o UpperCase \o <<"_">> \o LowerCase
RECURSIVE TextLess(_, _)
TextLess(a, b) ==
    IF b = <<>> THEN FALSE
    ELSE IF a = <<>> THEN TRUE
    ELSE IF Head(a) = Head(b) THEN TextLess(Tail(a), Tail(b))
    ELSE Index(CodeOrder, Head(a)) < Index(CodeOrder, Head(b))
\* a < b between two sort keys: a str and a datetime, or a str and an int, do
\* not compare (TypeError).
Comparable(a, b) == a.t = b.t
KeyLess(a, b) == IF a.t = "str" THEN TextLess(a.s, b.s) ELSE a.n < b.n

SortRaised(error) == [raised |-> TRUE, error |-> error, value |-> <<>>]
SortDone(files) == [raised |-> FALSE, error |-> "", value |-> files]
\* entries.sort(key=lambda x: get_sort_key(x[1], sort), reverse=reverse): the
\* keys are computed first; list.sort is stable, also with reverse=True, and
\* compares every element with another, so two keys that do not compare make
\* it raise.
sort_entries(files, sort_field, rev) ==
    LET n == Len(files)
        key(i) == get_sort_key(files[i].metadata, sort_field)
        first(i, j) == IF rev THEN KeyLess(key(j), key(i)) ELSE KeyLess(key(i), key(j))
        precedes(i, j) == first(i, j) \/ (~first(j, i) /\ i < j)
        rank(i) == Cardinality({j \in 1..n : precedes(j, i)}) + 1
    IN IF \E i \in 1..n : ~IsMap(files[i].metadata) THEN SortRaised("AttributeError")
       ELSE IF \E i, j \in 1..n : ~Comparable(key(i), key(j)) THEN SortRaised("TypeError")
       ELSE SortDone([r \in 1..n |-> files[CHOOSE i \in 1..n : rank(i) = r]])

NamesOf(files) == [i \in 1..Len(files) |-> files[i].name]

\* list(directory, filter, sort, reverse, verbose): a file safe_load fails on
\* is reported and left out; no file, or none loaded, is a ClickException;
\* then the filter, the sort and the table, one row per entry. A row starts
\* with metadata.get(...): an entry that is not a mapping is an
\* AttributeError, and like every exception it ends the command as a
\* ClickException.
List ==
    /\ qPc = "start"
    /\ qPc' = "done"
    /\ \E entries \in {SelectSeq(yaml_files, LAMBDA f : f.metadata.t # "unparsable")} :
       \E kept \in {IF filter # NoFilter THEN Kept(filter, entries) ELSE entries} :
       \E ordered \in {IF sort # "none" THEN sort_entries(kept, sort, reverse)
                        ELSE SortDone(kept)} :
          IF entries = <<>>
            THEN qResult' = "error" /\ UNCHANGED <<filtered, listed, qWarnings>>
            ELSE /\ filtered' = NamesOf(kept)
                 /\ qWarnings' = IF filter # NoFilter THEN Warned(filter, entries) ELSE <<>>
                 /\ IF ordered.raised
                         \/ \E i \in 1..Len(ordered.value) : ~IsMap(ordered.value[i].metadata)
                      THEN qResult' = "error" /\ listed' = <<>>
                      ELSE qResult' = "table" /\ listed' = NamesOf(ordered.value)
    /\ UNCHANGED <<filter, yaml_files, sort, reverse>>
    /\ UNCHANGED <<retryVars, genVars, paramVars, metaVars, loadVars, cmdVars>>

(***************************************************************************)
(* Verify: main.py, the `verify` command, with utils/image.py. The command *)
(* reads <stem>.yaml and the image <stem>.png beside it.                   *)
(***************************************************************************)
\* An image file: its bytes and what PIL reads from it.
NoImage == [exists |-> FALSE, data |-> <<>>, width |-> 0, height |-> 0, format |-> <<>>]
ImageFile(data, width, height, format) ==
    [exists |-> TRUE, data |-> data, width |-> width, height |-> height, format |-> format]
\* img.format of the file generate writes with suffix png / jpeg
FormatOf == [png |-> <<"P", "N", "G">>, jpeg |-> <<"J", "P", "E", "G">>]
TextOf == [png |-> <<"p", "n", "g">>, jpeg |-> <<"j", "p", "e", "g">>]

\* f"{width}x{height}"
DimensionsText(width, height) == IntText(width) \o <<"x">> \o IntText(height)
\* width, height = map(int, expected['dimensions'].split('x')): anything but
\* two integers is a ValueError.
ParseDimensions(text) ==
    LET cuts == {i \in 1..Len(text) : text[i] = "x"}
        cut == CHOOSE i \in cuts : TRUE
    IN IF Cardinality(cuts) # 1 THEN [ok |-> FALSE, width |-> 0, height |-> 0]
       ELSE IF ~(IsInt(SubSeq(text, 1, cut - 1)) /\ IsInt(SubSeq(text, cut + 1, Len(text))))
         THEN [ok |-> FALSE, width |-> 0, height |-> 0]
       ELSE [ok |-> TRUE, width |-> DigitsValue(SubSeq(text, 1, cut - 1)),
             height |-> DigitsValue(SubSeq(text, cut + 1, Len(text)))]

\* ImageVerifier.verify_dimensions(image_path, expected_width, expected_height)
verify_dimensions(image, expected_width, expected_height) ==
    image.width = expected_width /\ image.height = expected_height
\* ImageVerifier.verify_format(image_path, expected_format)
verify_format(image, expected_format) == lower(image.format) = lower(expected_format)

\* A timestamp text: whether datetime.fromisoformat accepts it, and now - t in
\* seconds (negative: in the future).
Timestamp(valid, age) == Value("str", [valid |-> valid, age |-> age])
NoMaxAge == [given |-> FALSE, seconds |-> 0]
MaxAge(seconds) == [given |-> TRUE, seconds |-> seconds]
\* ImageVerifier.verify_timestamp(timestamp, max_age_seconds): fromisoformat
\* of something that is not a str is a TypeError, which `except ValueError`
\* lets through.
verify_timestamp(timestamp, max_age_seconds) ==
    IF timestamp.type # "str" THEN Raise("TypeError")
    ELSE IF ~timestamp.v.valid THEN Ret(FALSE)
    ELSE IF timestamp.v.age < 0 THEN Ret(FALSE)
    ELSE IF max_age_seconds.given /\ timestamp.v.age > max_age_seconds.seconds THEN Ret(FALSE)
    ELSE Ret(TRUE)

\* How the command ends: the message of the ClickException and the values
\* formatted into it.
NotVerified == [state |-> "none", message |-> "", values |-> <<>>]
Verified == [state |-> "ok", message |-> "", values |-> <<>>]
Failed(message, values) == [state |-> "failed", message |-> message, values |-> values]
DimensionsMessage == "Image dimensions do not match metadata"
FormatMessage == "Image format does not match metadata"
TimestampMessage == "Image timestamp verification failed"
SizeMessage == "File size mismatch: expected {}, got {}"
ChecksumMessage == "Checksum mismatch: Expected: {} Actual: {}"

\* verify(metadata_file, verbose, max_age), the checks in the order of the
\* code; every exception leaves as ClickException(str(e)).
verify(doc, image, max_age) ==
    LET md == safe_load(doc)
        expected == IF "image_info" \in DOMAIN md THEN md["image_info"].v ELSE <<>>
        has(key) == key \in DOMAIN expected
        size == ParseDimensions(expected["dimensions"])
        stamp == verify_timestamp(md["timestamp"], max_age)
        actual_size == Len(image.data)
        actual_hash == compute_file_hash(image.data)
    IN IF ~image.exists THEN Failed("Image file not found", <<>>)
       ELSE IF doc = <<>> THEN Failed("AttributeError", <<>>)
       ELSE IF has("dimensions") /\ ~size.ok THEN Failed("ValueError", <<>>)
       ELSE IF has("dimensions") /\ ~verify_dimensions(image, size.width, size.height)
         THEN Failed(DimensionsMessage, <<>>)
       ELSE IF has("format") /\ ~verify_format(image, expected["format"])
         THEN Failed(FormatMessage, <<>>)
       ELSE IF "timestamp" \in DOMAIN md /\ stamp.raised THEN Failed(stamp.error, <<>>)
       ELSE IF "timestamp" \in DOMAIN md /\ ~stamp.value THEN Failed(TimestampMessage, <<>>)
       ELSE IF has("file_size_bytes") /\ actual_size # expected["file_size_bytes"]
         THEN Failed(SizeMessage, <<expected["file_size_bytes"], actual_size>>)
       ELSE IF has("checksum_sha256") /\ actual_hash # expected["checksum_sha256"]
         THEN Failed(ChecksumMessage, <<expected["checksum_sha256"], actual_hash>>)
       ELSE Verified

\* The images verify is run on, and the records beside them.
ImageSizes == {512, 1024}
Ages == {0 - 10, 5, 100}
MaxAges == {NoMaxAge, MaxAge(60)}
Only(present, key, value) == IF present THEN key :> value ELSE <<>>
\* A record in the layout verify reads: image_info with any of its four keys,
\* taken from `described`, and a timestamp text or none.
InfoRecord(keys, dimensions, format, described, stamps) ==
    stamps \o
    << Entry("image_info", Value("dict",
           Only("dimensions" \in keys, "dimensions", dimensions)
           @@ Only("format" \in keys, "format", format)
           @@ Only("file_size_bytes" \in keys, "file_size_bytes", Len(described.data))
           @@ Only("checksum_sha256" \in keys, "checksum_sha256",
                   compute_file_hash(described.data)))) >>
InfoKeys == {"dimensions", "format", "file_size_bytes", "checksum_sha256"}

VerifyInitAt(layout, doc, files, max_age) ==
    /\ vLayout = layout
    /\ vDoc = doc
    /\ vImages = files
    /\ vMaxAge = max_age
    /\ vChanged = FALSE
    /\ vPc = "start"
    /\ vOut = NotVerified
\* Either generate has just written image_001.<format> and save_metadata its
\* record, or image_001.png lies beside a record in the image_info layout
\* that describes it or an image of another size or format.
VerifyInit ==
    \E max_age \in MaxAges :
        \/ \E suffix \in Formats, content \in Contents, side \in ImageSizes :
             VerifyInitAt("saved",
                 metadata([stem |-> "image_001", suffix |-> suffix], content),
                 [s \in Formats |-> IF s = suffix
                                      THEN ImageFile(content, side, side, FormatOf[s])
                                      ELSE NoImage],
                 max_age)
        \/ \E keys \in SUBSET InfoKeys, width \in ImageSizes, format \in Formats,
              unreadable \in BOOLEAN,
              stamps \in {<<>>} \cup {<<Entry("timestamp", Timestamp(TRUE, a))>> : a \in Ages}
                          \cup {<<Entry("timestamp", Timestamp(FALSE, 0))>>} :
             LET image == ImageFile(<<0, 1>>, 512, 512, FormatOf["png"])
             IN VerifyInitAt("image_info",
                    InfoRecord(keys,
                               IF unreadable THEN Unknown ELSE DimensionsText(width, 512),
                               TextOf[format], image, stamps),
                    [s \in Formats |-> IF s = "png" THEN image ELSE NoImage],
                    max_age)
        \/ VerifyInitAt("image_info", <<>>,
               [s \in Formats |-> IF s = "png"
                                    THEN ImageFile(<<0, 1>>, 512, 512, FormatOf["png"])
                                    ELSE NoImage],
               max_age)
VerifyIdle == VerifyInitAt("image_info", <<>>, [s \in Formats |-> NoImage], NoMaxAge)

\* Somebody changes the content of the image after its record was written:
\* one byte is changed, or one byte is appended.
ChangeImage ==
    /\ vPc = "start"
    /\ ~vChanged
    /\ \E s \in Formats :
         /\ vImages[s].exists
         /\ \/ \E i \in 1..Len(vImages[s].data), b \in Bytes :
                 /\ b # vImages[s].data[i]
                 /\ vImages' = [vImages EXCEPT ![s].data[i] = b]
            \/ \E b \in Bytes :
                 vImages' = [vImages EXCEPT ![s].data = Append(@, b)]
    /\ vChanged' = TRUE
    /\ UNCHANGED <<vLayout, vDoc, vMaxAge, vPc, vOut>>
    /\ UNCHANGED <<retryVars, genVars, paramVars, metaVars, loadVars, queryVars, verifyAllVars, runVars>>

\* sdprompt verify image_001.yaml [--max-age N]: the image is <stem>.png.
VerifyCommand ==
    /\ vPc = "start"
    /\ vPc' = "done"
    /\ vOut' = verify(vDoc, vImages["png"], vMaxAge)
    /\ UNCHANGED <<vLayout, vDoc, vImages, vMaxAge, vChanged>>
    /\ UNCHANGED <<retryVars, genVars, paramVars, metaVars, loadVars, queryVars, verifyAllVars, runVars>>

(***************************************************************************)
(* verify-all: main.py, verify_all. In main.py the name `list` is bound to *)
(* the click command defined by `def list` (line 502), so the call         *)
(* list(dir_path.glob('*.yaml')) at line 443 runs that command with the    *)
(* paths as its command line instead of building a list.                   *)
(***************************************************************************)
\* The metadata files of the directory with the image beside each: one that
\* verify accepts, one whose image was changed since, one that is empty.
FileKinds == {"intact", "changed", "corrupt"}
StemOf == <<"image_001", "image_002", "image_003">>
DirFile(i, kind) ==
    LET image == ImageFile(<<0, 1>>, 512, 512, FormatOf["png"])
        record == InfoRecord(InfoKeys, DimensionsText(512, 512), TextOf["png"], image, <<>>)
    IN [stem |-> StemOf[i],
        doc |-> IF kind = "corrupt" THEN <<>> ELSE record,
        image |-> IF kind = "changed" THEN ImageFile(<<1, 1>>, 512, 512, FormatOf["png"])
                  ELSE image]
Directories ==
    UNION {[1..n -> FileKinds] : n \in 0..Len(StemOf)}
Jobs == {1, 2, 3}

\* A click command called as a function, Command.__call__(*args, **kwargs),
\* is Command.main(*args, **kwargs) in standalone mode: it parses `args` as a
\* command line and leaves with SystemExit, or with the exception the parser
\* raises on arguments that are not strings. It never returns a value.
CommandCall(args) ==
    IF args = <<>> THEN {"SystemExit"}         \* missing argument: usage error, exit 2
    ELSE {"SystemExit", "TypeError"}

NoReport == [reported |-> FALSE, success |-> 0, total |-> 0]
VerifyAllInitAt(files, jobs) ==
    /\ vaFiles = files
    /\ vaJobs = jobs
    /\ vaPc = "start"
    /\ vaResults = <<>>
    /\ vaReport = NoReport
    /\ vaExit = "none"
VerifyAllInit ==
    \E kinds \in Directories, jobs \in Jobs :
        VerifyAllInitAt([i \in 1..Len(kinds) |-> DirFile(i, kinds[i])], jobs)
VerifyAllIdle == VerifyAllInitAt(<<>>, 1)

\* sdprompt verify-all <directory> -j jobs: the command ends at line 443,
\* before a worker is started or a result is recorded. SystemExit is not an
\* Exception and leaves the process; anything else becomes a ClickException.
VerifyAllCommand ==
    /\ vaPc = "start"
    /\ vaPc' = "done"
    /\ \E raised \in CommandCall([i \in 1..Len(vaFiles) |-> vaFiles[i].stem]) :
         vaExit' = IF raised = "SystemExit" THEN "SystemExit" ELSE "ClickException"
    /\ UNCHANGED <<vaFiles, vaJobs, vaResults, vaReport>>
    /\ UNCHANGED <<retryVars, genVars, paramVars, metaVars, loadVars, queryVars, verifyVars, runVars>>

(***************************************************************************)
(* The loop of the `generate` command (main.py): for each of `count`       *)
(* images, the ImageParameters object, generate_image, save_metadata;     *)
(* any exception ends the command with click.Abort. The output directory   *)
(* may hold the images and records of an earlier run.                      *)
(***************************************************************************)
MaxCount == 3
Counts == (0 - 1)..MaxCount

\* str.zfill(width)
RECURSIVE zfill(_, _)
zfill(text, width) == IF Len(text) >= width THEN text ELSE zfill(<<"0">> \o text, width)
\* f"image_{image_number}" with image_number = str(i + 1).zfill(3)
output_stem(n) == <<"i", "m", "a", "g", "e", "_">> \o zfill(IntText(n), 3)
RunStems == {output_stem(n) : n \in 1..MaxCount}

\* What the directory holds under one stem: "none" | "old" (an earlier run's
\* file) | "new" (written whole by this run) | "partial" (a write that failed)
Held(image, record) == [image |-> image, record |-> record]
Event(op, n) == [op |-> op, number |-> n, stem |-> output_stem(n)]

\* A loop that goes on with the next image after an exception.
ContinueAfterException(n) == [pc |-> "request", number |-> n + 1]
\* except Exception: print the error, raise click.Abort()
OnException(n) == [pc |-> "aborted", number |-> n]

RunInitAt(c, dry, valid, dir) ==
    /\ count = c
    /\ dry_run = dry
    /\ validParameters = valid
    /\ output_dir = dir
    /\ image_number = 0
    /\ runPc = "start"
    /\ runTrace = <<>>

RunInit ==
    \E c \in Counts, dry \in BOOLEAN, valid \in BOOLEAN,
       dir \in [RunStems -> [image : {"none", "old"}, record : {"none", "old"}]] :
        RunInitAt(c, dry, valid, dir)
RunIdle == RunInitAt(1, FALSE, TRUE, [s \in RunStems |-> Held("none", "none")])

\* Configuration, the prompt and analyze_prompt; --dry-run returns before the
\* loop, and range(count) is empty for a count below 1.
RunStart ==
    /\ runPc = "start"
    /\ \E analysed \in BOOLEAN :
         IF ~analysed
           THEN runPc' = "aborted" /\ UNCHANGED image_number
           ELSE IF dry_run \/ count < 1
                  THEN runPc' = "done" /\ UNCHANGED image_number
                  ELSE runPc' = "request" /\ image_number' = 1
    /\ UNCHANGED <<count, dry_run, validParameters, output_dir, runTrace>>
    /\ UNCHANGED <<retryVars, genVars, paramVars, metaVars, loadVars, queryVars,
                   verifyVars, verifyAllVars>>

\* ImageParameters(**parameters), then the awaited generate_image: the
\* request, and on success the image written at output_path.
RunGenerateImage ==
    /\ runPc = "request"
    /\ image_number \in 1..count
    /\ LET n == image_number
           stem == output_stem(n)
           stop == OnException(n)
       IN IF ~validParameters
            THEN /\ runTrace' = Append(runTrace, Event("failed", n))
                 /\ runPc' = stop.pc /\ image_number' = stop.number
                 /\ UNCHANGED output_dir
            ELSE \E out \in {"ok", "api_error", "write_error"} :
                   /\ runTrace' = runTrace \o <<Event("request", n),
                                                Event(IF out = "ok" THEN "image" ELSE "failed", n)>>
                   /\ output_dir' = IF out = "ok" THEN [output_dir EXCEPT ![stem].image = "new"]
                                    ELSE IF out = "write_error"
                                           THEN [output_dir EXCEPT ![stem].image = "partial"]
                                    ELSE output_dir
                   /\ IF out = "ok"
                        THEN runPc' = "save" /\ UNCHANGED image_number
                        ELSE runPc' = stop.pc /\ image_number' = stop.number
    /\ UNCHANGED <<count, dry_run, validParameters>>
    /\ UNCHANGED <<retryVars, genVars, paramVars, metaVars, loadVars, queryVars,
                   verifyVars, verifyAllVars>>

\* save_metadata(image_path, ...): stat and hash of the image, then the
\* record written at image_path.with_suffix(".yaml"); then the next round.
RunSaveMetadata ==
    /\ runPc = "save"
    /\ LET n == image_number
           stem == output_stem(n)
           stop == OnException(n)
       IN \E out \in {"ok", "stat_error", "write_error"} :
            /\ runTrace' = Append(runTrace, Event(IF out = "ok" THEN "record" ELSE "failed", n))
            /\ output_dir' = IF out = "ok" THEN [output_dir EXCEPT ![stem].record = "new"]
                             ELSE IF out = "write_error"
                                    THEN [output_dir EXCEPT ![stem].record = "partial"]
                             ELSE output_dir
            /\ IF out = "ok"
                 THEN IF n = count
                        THEN runPc' = "done" /\ UNCHANGED image_number
                        ELSE runPc' = "request" /\ image_number' = n + 1
                 ELSE runPc' = stop.pc /\ image_number' = stop.number
    /\ UNCHANGED <<count, dry_run, validParameters>>
    /\ UNCHANGED <<retryVars, genVars, paramVars, metaVars, loadVars, queryVars,
                   verifyVars, verifyAllVars>>

CmdIdle == VerifyIdle /\ VerifyAllIdle /\ RunIdle

(***************************************************************************)
(* Specifications                                                          *)
(***************************************************************************)
StoreIdle == MetaIdle /\ LoadIdle /\ QueryIdle /\ CmdIdle

InitRetry == RetryInit /\ GenIdle /\ ParamIdle /\ StoreIdle
NextRetry == CallReturns \/ CallRaises \/ SleepDone
SpecRetry == InitRetry /\ [][NextRetry]_vars

InitGen == RetryIdle /\ GenInit /\ ParamIdle /\ StoreIdle
NextGen == StabilitySubmit \/ BflSubmit \/ BflSleep \/ BflPoll \/ BflDownload
              \/ BflCancel \/ WriteFile
SpecGen == InitGen /\ [][NextGen]_vars

InitParams == RetryIdle /\ GenIdle /\ ParamInit /\ StoreIdle
NextParams == AnalyzePrompt \/ Construct
SpecParams == InitParams /\ [][NextParams]_vars

InitMeta == RetryIdle /\ GenIdle /\ ParamIdle /\ MetaInit /\ LoadIdle /\ QueryIdle /\ CmdIdle
NextMeta == GenerateAndSave \/ ChangeByte \/ LoadAndVerify
SpecMeta == InitMeta /\ [][NextMeta]_vars

InitLoad == RetryIdle /\ GenIdle /\ ParamIdle /\ MetaIdle /\ LoadInit /\ QueryIdle /\ CmdIdle
NextLoad == Load
SpecLoad == InitLoad /\ [][NextLoad]_vars

InitQuery == RetryIdle /\ GenIdle /\ ParamIdle /\ MetaIdle /\ LoadIdle /\ QueryInit /\ CmdIdle
NextQuery == List
SpecQuery == InitQuery /\ [][NextQuery]_vars

InitVerify == RetryIdle /\ GenIdle /\ ParamIdle /\ MetaIdle /\ LoadIdle /\ QueryIdle
              /\ VerifyInit /\ VerifyAllIdle /\ RunIdle
NextVerify == ChangeImage \/ VerifyCommand
SpecVerify == InitVerify /\ [][NextVerify]_vars

InitVerifyAll == RetryIdle /\ GenIdle /\ ParamIdle /\ MetaIdle /\ LoadIdle /\ QueryIdle
                 /\ VerifyIdle /\ VerifyAllInit /\ RunIdle
NextVerifyAll == VerifyAllCommand
SpecVerifyAll == InitVerifyAll /\ [][NextVerifyAll]_vars

InitRun == RetryIdle /\ GenIdle /\ ParamIdle /\ MetaIdle /\ LoadIdle /\ QueryIdle
           /\ VerifyIdle /\ VerifyAllIdle /\ RunInit
NextRun == RunStart \/ RunGenerateImage \/ RunSaveMetadata
SpecRun == InitRun /\ [][NextRun]_vars

(***************************************************************************)
(* Properties                                                              *)
(***************************************************************************)
Range(seq) == {seq[i] : i \in 1..Len(seq)}

\* ---- with_retry ----
AllRetryable == \A i \in 1..Len(outcomes) : outcomes[i] = "retryable"

\* C1: with_retry(retries=n) around an operation that raises a retryable
\* exception on every call calls it exactly n+1 times (never more, and it does
\* not stop earlier) and then raises the exception object of the last call,
\* itself, not a wrapper and not the fallback Exception.
C1_ExhaustedRetriesRaiseLast ==
    AllRetryable =>
        /\ Len(outcomes) <= retries + 1
        /\ (rPc = "raised" <=> Len(outcomes) = retries + 1)
        /\ (rPc = "raised" => rRaised = ExcOf(retries + 1, "retryable"))
        /\ rPc # "returned"

\* C1's case: three retries, four failed calls, the wrapper has raised.
C1_Witness ==
    /\ retries = DefaultRetries
    /\ AllRetryable
    /\ Len(outcomes) = DefaultRetries + 1
    /\ rPc = "raised"
    /\ rRaised.id = DefaultRetries + 1

\* ---- generate_image ----
Posts == SelectSeq(gTrace, LAMBDA ev : ev.e = "post")
\* The outcomes of a submission that count as transient: rate limit, network
\* error, timeout.
Transient == {"429", "network", "timeout"}
Done == gPc = "done"

\* C2: a generation whose submission fails with a transient condition (429,
\* network error, timeout) is submitted again, retries + 1 = 4 times in all,
\* before the failure reaches the caller.
C2_TransientSubmitRetried ==
    (/\ Done
     /\ gResult.kind = "error"
     /\ Posts # <<>>
     /\ \A i \in 1..Len(Posts) : Posts[i].out \in Transient)
        => Len(Posts) = DefaultRetries + 1

Terminal(st) == st \in {"Ready", "Failed"}
\* The index of the first poll that reported a terminal status (0: none yet).
FirstTerminal ==
    IF \E i \in 1..Len(pollLog) : Terminal(pollLog[i].status)
      THEN CHOOSE i \in 1..Len(pollLog) :
             /\ Terminal(pollLog[i].status)
             /\ \A j \in 1..(i - 1) : ~Terminal(pollLog[j].status)
      ELSE 0
\* The call so far is the submission followed by k rounds of one wait of the
\* fixed interval and one poll.
PolledTimes(k) ==
    /\ Len(gTrace) >= 2 * k + 1
    /\ gTrace[1].e = "post"
    /\ \A i \in 1..k : /\ gTrace[2 * i] = Ev("sleep", PollIntervalMs, "ok")
                       /\ gTrace[2 * i + 1] = Ev("get", 0, "ok")
\* Nothing the call awaited or did after its polls has failed or been cancelled.
RestWentWell(k) == \A i \in (2 * k + 2)..Len(gTrace) : gTrace[i].out = "ok"

\* C3: on BFL the first terminal status decides. If polls 1..k-1 are not
\* terminal and poll k is Ready with a sample URL, there are exactly k polls,
\* each right after one wait of the fixed interval, then at most one download,
\* and a call that ends with the download and the write having gone well has
\* made exactly one download, written the file and returned success. If poll
\* k is Failed with detail E the call has ended: k polls, no download, no
\* file, and an error whose message holds E.
C3_FirstTerminalDecides ==
    LET k == FirstTerminal IN
    k > 0 =>
       /\ Len(pollLog) = k
       /\ Count(gTrace, "get") = k
       /\ Count(gTrace, "sleep") = k
       /\ PolledTimes(k)
       /\ pollLog[k].status = "Failed" =>
            /\ Done
            /\ Len(gTrace) = 2 * k + 1
            /\ Count(gTrace, "download") = 0
            /\ Count(gTrace, "write") = 0
            /\ file = "absent"
            /\ gResult.kind = "error"
            /\ ErrorText(pollLog[k].error) \in Range(gResult.msg)
       /\ (pollLog[k].status = "Ready" /\ pollLog[k].sample) =>
            /\ Count(gTrace, "download") <= 1
            /\ (Done /\ RestWentWell(k)) =>
                 /\ Count(gTrace, "download") = 1
                 /\ Count(gTrace, "write") = 1
                 /\ file = "complete"
                 /\ gResult = Success
            /\ gResult = Success => RestWentWell(k)

\* C3's case: Ready on the third poll, downloaded, written, success.
C3_Witness ==
    /\ provider = "bfl"
    /\ Done
    /\ Len(pollLog) = 3
    /\ pollLog[1].status \in NonTerminal
    /\ pollLog[2].status \in NonTerminal
    /\ pollLog[3].status = "Ready"
    /\ Count(gTrace, "download") = 1
    /\ file = "complete"
    /\ gResult = Success

\* C4: a call that returns success has written exactly one file, the output
\* path; a call that has ended in any other way has left no file, complete
\* or partial, at the output path.
C4_NoPartialFile ==
    Done => IF gResult.kind = "success"
              THEN file = "complete" /\ Count(gTrace, "write") = 1
              ELSE file = "absent"

\* C10: on every provider a prompt or negative prompt of more than 10,000
\* characters ends the call with a validation error, with no HTTP request
\* made and no file written.
C10_LongPromptRejected ==
    (Done /\ (promptLen > PromptCap \/ negLen > PromptCap)) =>
        /\ gResult.kind = "error"
        /\ gResult.type = "ValueError"
        /\ ~request.sent
        /\ gTrace = <<>>
        /\ file = "absent"

\* ---- parameters ----
Constructed == pPc = "constructed"
InRange64(x) == x >= MinDim /\ x <= MaxDim /\ x % 64 = 0

\* C5: whatever width and height are given, validation accepts them and the
\* result has both a multiple of 64 within [512, 1024] and a product within
\* [262144, 1048576].
C5_DimensionsRepaired ==
    Constructed =>
        /\ obj.built
        /\ InRange64(obj.v.width)
        /\ InRange64(obj.v.height)
        /\ obj.v.width * obj.v.height >= MinPixels
        /\ obj.v.width * obj.v.height <= MaxPixels

\* C6: a cfg_scale outside [1.0, 10.0] or steps outside [10, 50] never makes
\* validation raise: the object holds the nearest bound and the adjustments
\* recorded are not empty.
C6_OutOfRangeClamped ==
    (/\ Constructed
     /\ \/ raw.v.cfg_scale # Clamp(raw.v.cfg_scale, MinCfg, MaxCfg)
        \/ raw.v.steps # Clamp(raw.v.steps, MinSteps, MaxSteps))
        => /\ obj.built
           /\ obj.v.cfg_scale = Clamp(raw.v.cfg_scale, MinCfg, MaxCfg)
           /\ obj.v.steps = Clamp(raw.v.steps, MinSteps, MaxSteps)
           /\ obj.adj # <<>>

LoggedChange(f, old, new) ==
    \E i \in 1..Len(logged) : \E j \in 1..Len(logged[i]) :
        logged[i][j] = Note(f, old, new)

\* C9: every value that differs between the completion model's raw output
\* and the parameters of the request has a logged adjustment naming the
\* field, the old value and the new value.
C9_EveryChangeLogged ==
    (Constructed /\ obj.built) =>
        \A f \in raw.has :
            obj.v[f] # raw.v[f] => LoggedChange(f, raw.v[f], obj.v[f])

\* C11: a BFL submission answered with HTTP 402 ends the call at once: one
\* submission request, no wait, no poll, no download, no file, and an error
\* whose message gives the insufficient-credits reason and not the
\* too-many-active-tasks reason, which is the one an answer of 429 gets.
C11_PaymentRequiredFailsFast ==
    (provider = "bfl" /\ Posts # <<>>) =>
        /\ Posts[1].out = "402" =>
             /\ Done
             /\ gTrace = <<Ev("post", 0, "402")>>
             /\ pollLog = <<>>
             /\ file = "absent"
             /\ gResult.kind = "error"
             /\ "Insufficient BFL credits" \in Range(gResult.msg)
             /\ "Too many active BFL tasks" \notin Range(gResult.msg)
        /\ Posts[1].out = "429" =>
             /\ gResult.kind = "error"
             /\ "Too many active BFL tasks" \in Range(gResult.msg)
             /\ "Insufficient BFL credits" \notin Range(gResult.msg)

\* C11's case: the submission was answered 402 and the call has failed.
C11_Witness ==
    /\ provider = "bfl"
    /\ Done
    /\ Len(Posts) = 1
    /\ Posts[1].out = "402"
    /\ gResult.kind = "error"

\* ---- with_retry: what is not retried, and the waits ----
\* The index of the first call that raised an exception outside the
\* decorator's exception classes (0: none has).
FirstOther ==
    IF \E i \in 1..Len(outcomes) : outcomes[i] = "other"
      THEN CHOOSE i \in 1..Len(outcomes) :
             /\ outcomes[i] = "other"
             /\ \A j \in 1..(i - 1) : outcomes[j] # "other"
      ELSE 0
RetryableFailures == Cardinality({i \in 1..Len(outcomes) : outcomes[i] = "retryable"})

\* C12: an exception outside the retryable set is not retried. The call that
\* raised it is the last one, so the operation has been called once more than
\* the number of retryable failures before it; that very exception has left
\* the wrapper; and the only waits and warnings are those of the retryable
\* failures before it.
C12_NonRetryablePropagates ==
    LET k == FirstOther IN
    k > 0 =>
        /\ Len(outcomes) = k
        /\ Len(outcomes) = RetryableFailures + 1
        /\ rPc = "raised"
        /\ rRaised = ExcOf(k, "other")
        /\ Len(sleeps) = k - 1
        /\ Len(warnings) = k - 1

\* C12's case: one retryable failure, one wait, then a failure that is not
\* retryable, which has propagated.
C12_Witness ==
    /\ outcomes = <<"retryable", "other">>
    /\ rPc = "raised"
    /\ rRaised = ExcOf(2, "other")
    /\ Len(sleeps) = 1
    /\ Len(warnings) = 1

RECURSIVE Sum(_)
Sum(seq) == IF seq = <<>> THEN 0 ELSE Head(seq) + Sum(Tail(seq))

\* The waits of an always-failing run, common to both readings of C13: at
\* most n waits, the i-th (from 0) of d*b^i; a warning before each wait and
\* none without one; after the last failure n waits in all and their total
\* d*(b^n - 1)/(b - 1), which is n*d when b = 1.
WaitsAreGeometric ==
    /\ Len(sleeps) <= retries
    /\ \A i \in 1..Len(sleeps) : sleeps[i] = delay * Pow(backoff, i - 1)
    /\ Len(warnings) = Len(sleeps) + (IF rPc = "sleep" THEN 1 ELSE 0)
    /\ \A i \in 1..Len(warnings) :
         warnings[i].attempt = i /\ warnings[i].of = retries
    /\ rPc = "raised" =>
         /\ Len(sleeps) = retries
         /\ Len(warnings) = retries
         /\ Sum(sleeps) * (backoff - 1) = delay * (Pow(backoff, retries) - 1)
         /\ backoff = 1 => Sum(sleeps) = retries * delay

\* C13 as amended: for an always-failing retryable operation the waits are
\* geometric as above, and the warning before the i-th wait names the
\* attempt number and the wait's duration as printed with one decimal place
\* (rounded to the nearest tenth of a second).
C13_BackoffSchedule ==
    AllRetryable =>
        /\ WaitsAreGeometric
        /\ \A i \in 1..Len(warnings) :
             warnings[i].wait = Fmt1(delay * Pow(backoff, i - 1))

\* C13 as stated: the same, with each warning naming exactly the duration of
\* the wait that follows it.
C13_WarningNamesExactWait ==
    AllRetryable =>
        /\ WaitsAreGeometric
        /\ \A i \in 1..Len(warnings) :
             warnings[i].wait * 10 = delay * Pow(backoff, i - 1)

\* C13's case: three retries from 0.25 s with backoff 3 have all failed; the
\* waits were 0.25, 0.75 and 2.25 s and the warnings said 0.2, 0.8 and 2.2.
C13_Witness ==
    /\ AllRetryable
    /\ retries = 3 /\ delay = 25 /\ backoff = 3
    /\ rPc = "raised"
    /\ sleeps = <<25, 75, 225>>
    /\ Len(warnings) = 3
    /\ warnings[1].wait = 2 /\ warnings[2].wait = 8 /\ warnings[3].wait = 22

\* C14: when the model the generation runs on (the model the generator was
\* constructed with, which it reports as the engine of the result) is a turbo
\* model, the request has no negative_prompt field and a negative prompt
\* that was given has been dropped with a warning; when it is not a turbo
\* model and the negative prompt is not empty, the request has the field.
C14_TurboDropsNegative ==
    (provider = "stability" /\ request.sent) =>
        /\ model \in TurboModels => (~request.negative /\ (negLen > 0 => gWarned))
        /\ (model \notin TurboModels /\ negLen > 0) => request.negative

\* C15: a call that ended because a request to the provider failed (status
\* not 200, timeout, transport error, failed job, failed download) ended with
\* the driver's own error, a RuntimeError, and for a timeout or transport
\* error the message holds the message of the original exception.
ProviderFailure ==
    /\ Done
    /\ gResult.kind = "error"
    /\ gTrace # <<>>
    /\ gTrace[Len(gTrace)].e \in {"post", "get", "download"}
C15_FailuresAreWrapped ==
    ProviderFailure =>
        LET last == gTrace[Len(gTrace)] IN
        /\ gResult.type = "RuntimeError"
        /\ last.out \in {"network", "timeout", "HTTPStatusError"}
             => last.out \in Range(gResult.msg)

\* ---- metadata ----
\* C16: save, load, verify. When the record loaded for an image is the one
\* save_metadata wrote for it (the record of its own path), verify_image is
\* true if the image is as it was saved and false if one byte of it has
\* been changed since.
C16_RoundTrip ==
    (checked.state = "verified" /\ checked.format = checked.image.suffix) =>
        (checked.ok <=> ~checked.wasChanged)

\* C16's case: the record of an image with one byte changed was loaded and
\* verify_image returned false.
C16_Witness ==
    /\ checked.state = "verified"
    /\ checked.format = checked.image.suffix
    /\ checked.wasChanged
    /\ ~checked.ok

\* C17: every image in the directory that has not been changed since it was
\* saved has a record of its own, <stem>.yaml, which loads and against which
\* the image verifies.
C17_RecordPerImage ==
    \A p \in ImagePaths :
        (images[p].exists /\ p \notin changed) =>
            /\ records[p.stem].exists
            /\ load_metadata(records[p.stem].data).state = "loaded"
            /\ verify_image(images[p].data, load_metadata(records[p.stem].data))

\* ---- load_metadata ----
AllPresent == RequiredFields \subseteq Keys(document)
WellTyped == \A f \in RequiredFields \cap Keys(document) : safe_load(document)[f].type = FieldType[f]
HasExtra == Keys(document) \ RequiredFields # {}

LargerThan(n) ==
    LET big == SelectSeq(yaml_files, LAMBDA entry : SizeStoredInVerification(entry.metadata).n > n)
    IN [i \in 1..Len(big) |-> big[i].name]

\* C19: the filter "size>5MB" compares the size_bytes stored in each record's
\* verification block with 5 * 1024 * 1024 = 5,242,880: over records written
\* by save_metadata it keeps exactly those whose size_bytes is larger (of
\* 1,000,000, 6,000,000 and 10,000,000 the last two).
C19_SizeFilterSelects ==
    /\ parse_size(<<"5", "M", "B">>) = SizeValue(TRUE, 5242880)
    /\ (/\ qPc = "done"
        /\ filter = FilterSizeOver5MB
        /\ yaml_files # <<>>
        /\ \A i \in 1..Len(yaml_files) : KeyImageVerification \in DOMAIN yaml_files[i].metadata.m)
           => filtered = LargerThan(5242880)

\* C20: with a filter expression that is not of the form
\* field[.subfield] operator value (one of the seven operators), evaluating
\* the filter raises at once and the query fails: no table is printed, no
\* record is silently left out.
C20_MalformedFilterFails ==
    (qPc = "done" /\ filter \in MalformedFilters) =>
        /\ qResult = "error"
        /\ \A i \in 1..Len(yaml_files) :
             /\ eval_filter(filter, yaml_files[i].metadata).raised
             /\ eval_filter(filter, yaml_files[i].metadata).error = "ValueError"


\* Every file of the directory holds a record (a mapping).
AllRecords == \A i \in 1..Len(yaml_files) : IsMap(yaml_files[i].metadata)
\* The names of the entries of the directory that satisfy P, in order.
NamesWhere(P(_)) ==
    LET kept == SelectSeq(yaml_files, P)
    IN [i \in 1..Len(kept) |-> kept[i].name]

\* C21: for a well-formed filter expression eval_filter never raises, whatever
\* the record: an absent field or subfield, a parent that is not a mapping, a
\* size that cannot be parsed or an operand that is not a number only makes
\* the predicate false, so list prints no filter warning.
C21_WellFormedFilterNeverRaises ==
    (qPc = "done" /\ filter \in WellFormedFilters /\ AllRecords) =>
        /\ qWarnings = <<>>
        /\ \A i \in 1..Len(yaml_files) : ~eval_filter(filter, yaml_files[i].metadata).raised

\* The model name a record holds: the top-level key `model`, or, in the record
\* save_metadata writes, model_info.generator.model.
StoredModel(md) ==
    IF KeyModel \in DOMAIN md.m THEN md.m[KeyModel].s
    ELSE md.m[KeyModelInfo].m[KeyGenerator].m[KeyModel].s
Turbo == <<"t", "u", "r", "b", "o">>
\* C22: the string operators ignore case: "model contains turbo" selects
\* exactly the records whose model, lower-cased, contains "turbo" (so
\* "SD3.5-Large-Turbo" matches), "model=SD3.5-LARGE" exactly those whose model
\* equals it up to case, "model != Flux-Pro-1.1" exactly the others, and
\* "prompt contains cat" exactly the records whose prompt contains "cat" in
\* any case.
C22_StringOperatorsIgnoreCase ==
    (qPc = "done" /\ yaml_files # <<>> /\ AllRecords) =>
        /\ filter = FilterModelTurbo =>
             filtered = NamesWhere(LAMBDA e :
                 IsSubstring(Turbo, lower(StoredModel(e.metadata))))
        /\ filter = FilterModelIs =>
             filtered = NamesWhere(LAMBDA e :
                 lower(StoredModel(e.metadata)) = lower(ModelNames[2]))
        /\ filter = FilterModelIsNot =>
             filtered = NamesWhere(LAMBDA e :
                 lower(StoredModel(e.metadata)) # lower(ModelNames[3]))
        /\ filter = FilterPrompt =>
             filtered = NamesWhere(LAMBDA e :
                 IsSubstring(<<"c", "a", "t">>, lower(e.metadata.m[KeyOriginalPrompt].s)))


\* C26: every failure of verify for a checksum, size, dimension or timestamp
\* mismatch is reported with both the expected value of the record and the
\* actual value found.
MismatchMessages == {DimensionsMessage, TimestampMessage, SizeMessage, ChecksumMessage}
C26_MismatchShowsBothValues ==
    (vPc = "done" /\ vOut.state = "failed" /\ vOut.message \in MismatchMessages) =>
        Len(vOut.values) = 2

\* C27: on an image saved together with its record by save_metadata the
\* verify command succeeds exactly when the image content is unchanged since.
C27_VerifyFollowsSavedRecord ==
    (vPc = "done" /\ vLayout = "saved") => (vOut.state = "ok" <=> ~vChanged)


\* The records of the directory that verify accepts.
Verifying == {i \in 1..Len(vaFiles) :
                 verify(vaFiles[i].doc, vaFiles[i].image, NoMaxAge).state = "ok"}
\* C23: verify-all, whatever the number of jobs, produces exactly one result
\* per metadata file, a failed one for a record that is corrupt or does not
\* verify, and reports as success count the number of records that verified.
C23_OneResultPerRecord ==
    vaPc = "done" =>
        /\ Len(vaResults) = Len(vaFiles)
        /\ \A i \in 1..Len(vaFiles) :
             \E j \in 1..Len(vaResults) :
                 /\ vaResults[j].name = vaFiles[i].stem
                 /\ vaResults[j].success <=> i \in Verifying
        /\ vaFiles # <<>> =>
             /\ vaReport.reported
             /\ vaReport.success = Cardinality(Verifying)
             /\ vaReport.total = Len(vaFiles)


\* The files of the directory that hold a record, and the names of those the
\* filter of the command lets through.
ValidFiles == SelectSeq(yaml_files, LAMBDA f : IsMap(f.metadata))
Selected == NamesOf(IF filter = NoFilter THEN ValidFiles ELSE Kept(filter, ValidFiles))
SameNames(s, u) == Len(s) = Len(u) /\ {s[i] : i \in 1..Len(s)} = {u[i] : i \in 1..Len(u)}
\* C24: in list a metadata file that is unparsable, empty or not a mapping is
\* left out alone: with or without a filter or a sort the valid records the
\* filter lets through are still listed, and the command fails as a whole
\* only when the directory has no valid record. (Sort keys that do not
\* compare are the matter of C25 and are left aside here.)
C24_MalformedFileIsLeftOut ==
    (qPc = "done" /\ filter \in {NoFilter, FilterPrompt}
       /\ (sort = "none" \/ ~sort_entries(ValidFiles, sort, reverse).raised)) =>
        (ValidFiles # <<>> => (qResult = "table" /\ SameNames(listed, Selected)))

\* The sort key of the file called `name`.
KeyOf(name) ==
    LET i == CHOOSE i \in 1..Len(yaml_files) : yaml_files[i].name = name
    IN get_sort_key(yaml_files[i].metadata, sort)
Position(name) == CHOOSE i \in 1..Len(yaml_files) : yaml_files[i].name = name
\* C25: sorting records by date, size or model never errors when some of them
\* lack the sort field: the key of such a record is the empty string (date,
\* model) or zero (size), all keys compare, the rows come out in the order of
\* their keys (descending with reverse), and rows with equal keys keep the
\* order of the directory.
C25_SortNeverErrors ==
    (qPc = "done" /\ sort # "none" /\ AllRecords /\ yaml_files # <<>>) =>
        /\ qResult = "table"
        /\ SameNames(listed, Selected)
        /\ \A i, j \in 1..Len(listed) :
             i < j =>
                /\ Comparable(KeyOf(listed[i]), KeyOf(listed[j]))
                /\ IF reverse THEN ~KeyLess(KeyOf(listed[i]), KeyOf(listed[j]))
                              ELSE ~KeyLess(KeyOf(listed[j]), KeyOf(listed[i]))
                /\ (~KeyLess(KeyOf(listed[i]), KeyOf(listed[j]))
                      /\ ~KeyLess(KeyOf(listed[j]), KeyOf(listed[i])))
                   => Position(listed[i]) < Position(listed[j])


\* Every poll so far reported a status that is neither Ready nor Failed, and
\* nothing the call awaited failed or was cancelled.
OnlyNonTerminal ==
    /\ provider = "bfl"
    /\ pollLog # <<>>
    /\ \A i \in 1..Len(pollLog) : pollLog[i].status \in NonTerminal
    /\ RestWentWell(0)
\* C28: on BFL generate_image ends only when a poll reports Ready or Failed or
\* a request errors (or the task is cancelled). There is no limit on the polls:
\* after any other status, an unknown one included, the call has not returned;
\* it is in its next wait or its next poll, every poll so far came right
\* after one wait, and nothing was downloaded or written.
C28_PollsUntilTerminal ==
    /\ OnlyNonTerminal =>
         /\ gPc \in {"sleep", "poll"}
         /\ gResult = NoResult
         /\ PolledTimes(Len(pollLog))
         /\ Count(gTrace, "get") = Len(pollLog)
         /\ Count(gTrace, "sleep") = Len(pollLog) + (IF gPc = "poll" THEN 1 ELSE 0)
         /\ Count(gTrace, "download") = 0
         /\ file = "absent"
    /\ (provider = "bfl" /\ Done /\ pollLog # <<>>) =>
         \/ Terminal(pollLog[Len(pollLog)].status)
         \/ gTrace[Len(gTrace)].out # "ok"
C28_Witness ==
    /\ OnlyNonTerminal
    /\ Len(pollLog) >= 2
    /\ \E i \in 1..Len(pollLog) : pollLog[i].status = "Unknown"
    /\ gPc = "poll"


\* The dimensions after the clamp to [512, 1024] and the rounding, as both
\* analyze_prompt and the validator compute them from the raw values.
Repaired(v) == [v EXCEPT !.width = RoundTo64(Clamp(v.width, MinDim, MaxDim)),
                         !.height = RoundTo64(Clamp(v.height, MinDim, MaxDim))]
HasPixelNote(adj) == \E i \in 1..Len(adj) : adj[i] = PixelNote
FallbackTaken(v) == HasPixelNote(CheckPixels(Enter(v)).adj)

\* C29: the total-pixel fallback is never taken. For every raw width and
\* height, the values clamped to [512, 1024] and rounded to a multiple of 64
\* are still in [512, 1024], their product is in [262144, 1048576], and the
\* pixel check leaves them alone; no constructed object and no logged warning
\* carries the pixel adjustment, and an object built from analysed
\* parameters has exactly the repaired width and height (no square put in
\* their place).
C29_PixelFallbackNeverTaken ==
    LET r == Repaired(raw.v)
    IN /\ r.width >= MinDim /\ r.width <= MaxDim
       /\ r.height >= MinDim /\ r.height <= MaxDim
       /\ r.width * r.height >= MinPixels /\ r.width * r.height <= MaxPixels
       /\ ~FallbackTaken(r)
       /\ (pPc # "raw" /\ path = "pipeline" /\ {"width", "height"} \subseteq raw.has) =>
             (cur.v.width = r.width /\ cur.v.height = r.height /\ ~FallbackTaken(cur.v))
       /\ ~HasPixelNote(validate_and_clamp(cur.v).adj)
       /\ ~HasPixelNote(obj.adj)
       /\ \A i \in 1..Len(logged) : ~HasPixelNote(logged[i])
       /\ (path = "pipeline" /\ pPc = "constructed" /\ {"width", "height"} \subseteq raw.has) =>
             /\ obj.built
             /\ obj.v.width = r.width /\ obj.v.height = r.height
C29_Witness ==
    /\ path = "pipeline" /\ pPc = "constructed" /\ obj.built
    /\ {"width", "height"} \subseteq raw.has
    /\ raw.v.width < MinDim /\ raw.v.height > MaxDim
    /\ obj.v.width = MinDim /\ obj.v.height = MaxDim


\* ---- the loop of `generate` ----
Happened(op, n) == \E a \in 1..Len(runTrace) : runTrace[a] = Event(op, n)
RequestsBefore(a) == Cardinality({b \in 1..(a - 1) : runTrace[b].op = "request"})

\* C30: images are produced strictly in order image_001..image_n. The k-th
\* request of a run is the one for image k, it is issued only after the
\* record of image k-1 was written and after no failure; a failure is the
\* last event of the run and leaves the command aborted; at most `count`
\* requests are made; every image before the current one has had its record
\* written, and every image whose record was written still has this run's
\* image file and this run's record; a run that ends normally with
\* count >= 1 and no --dry-run has made exactly request, image, record for
\* each of image_001..image_count.
C30_ImagesInOrderFirstFailureAborts ==
    /\ \A a \in 1..Len(runTrace) :
         /\ runTrace[a].op = "request" =>
              /\ runTrace[a].number = RequestsBefore(a) + 1
              /\ runTrace[a].number <= count
              /\ runTrace[a].number > 1 =>
                   \E b \in 1..(a - 1) : runTrace[b] = Event("record", runTrace[a].number - 1)
              /\ \A b \in 1..(a - 1) : runTrace[b].op # "failed"
         /\ runTrace[a].op = "failed" => (a = Len(runTrace) /\ runPc = "aborted")
         /\ runTrace[a].stem = output_stem(runTrace[a].number)
    /\ \A n \in 1..MaxCount :
         /\ (runPc # "start" /\ n < image_number) => Happened("record", n)
         /\ Happened("record", n) =>
              output_dir[output_stem(n)] = Held("new", "new")
    /\ \A m, n \in 1..MaxCount : m # n => output_stem(m) # output_stem(n)
    /\ (runPc = "done" /\ ~dry_run /\ count >= 1) =>
         /\ Len(runTrace) = 3 * count
         /\ \A n \in 1..count :
              /\ runTrace[3 * n - 2] = Event("request", n)
              /\ runTrace[3 * n - 1] = Event("image", n)
              /\ runTrace[3 * n] = Event("record", n)
\* The run of three images stopped at the second, whose record could not be
\* saved: one request was made for each of the first two images, none for
\* the third, and image_001 has its image and its record.
C30_Witness ==
    /\ runPc = "aborted" /\ count = 3 /\ image_number = 2
    /\ Happened("image", 2) /\ runTrace[Len(runTrace)] = Event("failed", 2)
    /\ ~Happened("request", 3)
    /\ output_dir[output_stem(1)] = Held("new", "new")
    /\ output_dir[output_stem(3)].image = "old"

=============================================================================
